---- MODULE Spec2Model ----
(***************************************************************************)
(* State-machine model of the SPU tool's mapping-and-transform engine:     *)
(* src/src/mapping_engine.py (MappingEngine) and src/src/processor.py      *)
(* (SPUProcessor).                                                         *)
(*                                                                         *)
(* Values.  Every cell, config key and config string is a Text: a finite   *)
(* sequence of tokens (TLA+ strings).  A token is one character where the  *)
(* code looks inside the string (trimming, prefixes, dotted paths,         *)
(* keyword search) and a whole word where it only compares it.  The blank  *)
(* character is the token " ".  pandas' NaN and Python's None are the      *)
(* reserved one-token texts NaN and None.  A number n is the one-token     *)
(* text <<ToString(n)>>, which is what str(n) gives.                       *)
(***************************************************************************)
EXTENDS Integers, Sequences, FiniteSets, TLC

VARIABLES
    config,          \* SPUProcessor.config / MappingEngine.config (ConfigDocument)
    input_data,      \* SPUProcessor.input_data (dict sheet name -> DataFrame)
    template_path,   \* SPUProcessor.template_path
    mappings,        \* SPUProcessor.mappings (dict target sheet -> list of rules)
    engine,          \* MappingEngine.mappings of the engine built last
    wb,              \* the workbook opened last (dict sheet -> worksheet)
    ret,             \* the call made last: its name, result and exception
    progress,        \* notifications the callback of the latest process() received
    output_folder,   \* the Output folder (dict file name -> saved workbook)
    gui              \* SPUToolGUI: its paths, its process button and its threads

vars == <<config, input_data, template_path, mappings, engine, wb, ret, progress, output_folder,
          gui>>

-----------------------------------------------------------------------------
(* Python / pandas scalars *)

NaN == <<"NaN">>
None == <<"None">>
EmptyDict == <<>>

\* pd.isna(value): NaN and None are both missing.
isna(value) == value = NaN \/ value = None
notna(value) == ~isna(value)

\* str(value) for a scalar cell.
str(value) ==
    IF value = NaN THEN <<"n", "a", "n">>
    ELSE IF value = None THEN <<"N", "o", "n", "e">>
    ELSE value

RECURSIVE lstrip(_)
lstrip(s) == IF s # <<>> /\ Head(s) = " " THEN lstrip(Tail(s)) ELSE s

RECURSIVE rstrip(_)
rstrip(s) ==
    IF s # <<>> /\ s[Len(s)] = " " THEN rstrip(SubSeq(s, 1, Len(s) - 1)) ELSE s

\* str.strip()
strip(s) == rstrip(lstrip(s))

\* str.startswith(prefix)
startswith(s, prefix) ==
    Len(s) >= Len(prefix) /\ SubSeq(s, 1, Len(prefix)) = prefix

\* s[n:]
slice_from(s, n) == SubSeq(s, n + 1, Len(s))

\* The first index >= i at which sep occurs in s, or 0.
RECURSIVE find_from(_, _, _)
find_from(s, sep, i) ==
    IF i > Len(s) THEN 0
    ELSE IF s[i] = sep THEN i
    ELSE find_from(s, sep, i + 1)

\* str.split(sep): every piece, empty ones included.
RECURSIVE split(_, _)
split(s, sep) ==
    LET k == find_from(s, sep, 1)
    IN  IF k = 0 THEN <<s>>
        ELSE <<SubSeq(s, 1, k - 1)>> \o split(SubSeq(s, k + 1, Len(s)), sep)

\* str.split(): pieces between runs of blanks, empty ones dropped.
split_ws(s) == SelectSeq(split(s, " "), LAMBDA p : p # <<>>)

\* str.lower(), on the capitals the inputs use.
lower_char(c) ==
    CASE c = "A" -> "a" [] c = "B" -> "b" [] c = "E" -> "e" [] c = "F" -> "f"
      [] c = "M" -> "m" [] OTHER -> c
lower(s) == [i \in 1..Len(s) |-> lower_char(s[i])]

\* needle in haystack (substring test)
contains(haystack, needle) ==
    \E i \in 1..(Len(haystack) - Len(needle) + 1) :
        SubSeq(haystack, i, i + Len(needle) - 1) = needle

\* sep.join(parts)
RECURSIVE join(_, _)
join(sep, parts) ==
    IF parts = <<>> THEN <<>>
    ELSE IF Len(parts) = 1 THEN parts[1]
    ELSE parts[1] \o <<sep>> \o join(sep, Tail(parts))

\* [x] * n
repeat(x, n) == [i \in 1..n |-> x]

\* safe_str(value, default="")
safe_str(value) == IF isna(value) THEN <<>> ELSE strip(str(value))

-----------------------------------------------------------------------------
(* DataFrames: [columns |-> set of column names, rows |-> sequence of      *)
(* rows], a row being a function from the column names to values.          *)

EmptyDF == [columns |-> {}, rows |-> <<>>]
empty(df) == df.rows = <<>> \/ df.columns = {}

\* row.get(name, default) / dict.get(name, default)
get(row, name, default) == IF name \in DOMAIN row THEN row[name] ELSE default

\* input_data.get(sheet, pd.DataFrame())
sheet_of(data, name) == get(data, <<name>>, EmptyDF)

-----------------------------------------------------------------------------
(* ConfigDocument: the parsed config.json, a tree of nodes.                *)
(*   [kind |-> "dict", items |-> function from keys (Text) to nodes]       *)
(*   [kind |-> "str", val |-> Text]    [kind |-> "num", val |-> integer]    *)
(*   [kind |-> "list", val |-> sequence of Text]      [kind |-> "null"]     *)

Dict(items) == [kind |-> "dict", items |-> items]
Str(text) == [kind |-> "str", val |-> text]
Num(n) == [kind |-> "num", val |-> n]
List(texts) == [kind |-> "list", val |-> texts]
Null == [kind |-> "null"]
EmptyNode == Dict(EmptyDict)

\* isinstance(value, dict) and key in value
has_key(node, key) == node.kind = "dict" /\ key \in DOMAIN node.items

\* node.get(key, {}) on a mapping of the config
cfg_get(node, key) == IF has_key(node, <<key>>) THEN node.items[<<key>>] ELSE EmptyNode

\* str(value) of a config value; containers print as their repr.
py_str(node) ==
    CASE node.kind = "str" -> node.val
      [] node.kind = "num" -> <<ToString(node.val)>>
      [] node.kind = "null" -> <<"N", "o", "n", "e">>
      [] node.kind = "list" -> <<"[">> \o join(",", node.val) \o <<"]">>
      [] OTHER -> <<"{">> \o <<"}">>

\* SPUProcessor.version / MappingEngine.version
version == <<"V1.70.26">>

-----------------------------------------------------------------------------
(* Numbers in cells: int(float(value)) reads a numeral, blanks around it   *)
(* allowed, written as an integer or with a ".0".                          *)

MaxNumber == 25
\* The numbers a cell may hold: 0 .. MaxNumber, and the arfcn 1700.
Numerals == (0..MaxNumber) \cup {1700}

is_number(text) ==
    LET t == strip(text)
    IN  Len(t) = 1 /\ \E n \in Numerals : t[1] = ToString(n) \/ t[1] = ToString(n) \o ".0"

int_of(text) ==
    LET t == strip(text)
    IN  CHOOSE n \in Numerals : t[1] = ToString(n) \/ t[1] = ToString(n) \o ".0"

\* safe_int(value, default): the integer as a Text, or the default.
safe_int(value, default) ==
    IF isna(value) THEN default
    ELSE IF is_number(str(value)) THEN <<ToString(int_of(str(value)))>>
    ELSE default

-----------------------------------------------------------------------------
(* MappingEngine (src/src/mapping_engine.py)                               *)

\* MappingEngine._get_spu_config
_get_spu_config(cfg) == cfg_get(cfg_get(cfg, "SPU"), version[1])

\* The version filter of MappingEngine._parse_mappings.
version_mask(row) ==
    \/ row[<<"Version">>] = version
    \/ isna(row[<<"Version">>])
    \/ row[<<"Version">>] = <<>>

\* The rule MappingEngine._parse_mappings builds from one row.
mapping_rule(row) ==
    [ target_column |-> strip(str(get(row, <<"Column">>, <<>>))),
      source_sheet  |-> strip(str(get(row, <<"SourceSheet">>, <<>>))),
      source_column |-> strip(str(get(row, <<"SourceColumn">>, <<>>))),
      fixed_value   |-> get(row, <<"FixedValue">>, None),
      note          |-> strip(str(get(row, <<"Note">>, <<>>))),
      meaning       |-> strip(str(get(row, <<"Meaning">>, <<>>))) ]

\* One iteration of the loop of MappingEngine._parse_mappings.
engine_add_row(acc, row) ==
    LET target_sheet == strip(str(get(row, <<"Sheet">>, <<>>)))
        grouped == IF target_sheet \in DOMAIN acc THEN acc
                   ELSE (target_sheet :> <<>>) @@ acc
        rule == mapping_rule(row)
    IN  IF target_sheet = <<>> THEN acc
        ELSE IF rule.target_column # <<>>
             THEN [grouped EXCEPT ![target_sheet] = Append(@, rule)]
             ELSE grouped

RECURSIVE engine_add_rows(_, _)
engine_add_rows(acc, rows) ==
    IF rows = <<>> THEN acc
    ELSE engine_add_rows(engine_add_row(acc, Head(rows)), Tail(rows))

MappingEngine_parse_mappings(mapping_df) ==
    IF empty(mapping_df) THEN EmptyDict
    ELSE LET filtered == IF <<"Version">> \in mapping_df.columns
                         THEN SelectSeq(mapping_df.rows, version_mask)
                         ELSE mapping_df.rows
         IN  engine_add_rows(EmptyDict, filtered)

\* A walk that gives up differently: at a missing segment or a non-mapping
\* intermediate it answers with the text of the node it has reached.
RECURSIVE config_walk_lenient(_, _)
config_walk_lenient(value, keys) ==
    IF keys = <<>> THEN (IF value.kind # "null" THEN py_str(value) ELSE <<>>)
    ELSE IF has_key(value, Head(keys))
         THEN config_walk_lenient(value.items[Head(keys)], Tail(keys))
         ELSE py_str(value)

\* MappingEngine._get_config_value: the walk along the dotted path.
RECURSIVE config_walk(_, _)
config_walk(value, keys) ==
    IF keys = <<>> THEN (IF value.kind # "null" THEN py_str(value) ELSE <<>>)
    ELSE IF has_key(value, Head(keys)) THEN config_walk(value.items[Head(keys)], Tail(keys))
    ELSE <<>>

_get_config_value(cfg, key_path) == config_walk(cfg, split(key_path, "."))

-----------------------------------------------------------------------------
(* MappingEngine: config-table lookups selected by the rule's note.        *)
(* A lookup returns a list of num_rows values, or NoList (Python's None    *)
(* in place of the list).                                                  *)

NoList == << <<"NoList">> >>

\* "result if any(v is not None for v in result) else None"
list_or_none(result) ==
    IF \E i \in 1..Len(result) : result[i] # None THEN result ELSE NoList

\* table.get(key, default) on a config table, as a cell value
table_get(table, key, default) ==
    IF has_key(table, key) THEN py_str(table.items[key]) ELSE default

_apply_bandwidth_mapping(cfg, source_data, num_rows) ==
    LET bw_mapping == cfg_get(_get_spu_config(cfg), "bandwidth_mapping")
        df == sheet_of(source_data, "Radio 4G")
        value(i) ==
            IF /\ <<"Radio 4G">> \in DOMAIN source_data /\ ~empty(df)
               /\ i <= Len(df.rows) /\ <<"dlChannelBandwidth">> \in df.columns
            THEN LET bw == df.rows[i][<<"dlChannelBandwidth">>]
                 IN  table_get(bw_mapping, str(bw), bw)
            ELSE None
    IN  list_or_none([i \in 1..num_rows |-> value(i)])

_apply_earfcn_mapping(cfg, source_data, num_rows) ==
    LET earfcn_mapping == cfg_get(_get_spu_config(cfg), "earfcn_mapping")
        df == sheet_of(source_data, "Radio 4G")
        value(i) ==
            IF /\ <<"Radio 4G">> \in DOMAIN source_data /\ ~empty(df)
               /\ i <= Len(df.rows) /\ <<"arfcndl">> \in df.columns
            THEN LET earfcn == df.rows[i][<<"arfcndl">>]
                     earfcn_int == safe_int(earfcn, None)
                 IN  IF earfcn_int # None
                     THEN table_get(earfcn_mapping, earfcn_int, earfcn)
                     ELSE None
            ELSE None
    IN  list_or_none([i \in 1..num_rows |-> value(i)])

\* The addresses of the names of one cell, in order ("ips.extend(...)").
RECURSIVE pool_ips(_, _)
pool_ips(pool, names) ==
    IF names = <<>> THEN <<>>
    ELSE (IF has_key(pool, Head(names)) THEN pool.items[Head(names)].val ELSE <<>>)
         \o pool_ips(pool, Tail(names))

\* _apply_mme_mapping and _apply_amf_mapping: the same routine on the
\* "mme"/"MME" and "amf"/"AMF" pool and column.
pool_mapping(cfg, source_data, num_rows, pool_key, column) ==
    LET pool == cfg_get(cfg, pool_key)
        df == sheet_of(source_data, "IP")
        value(i) ==
            IF /\ <<"IP">> \in DOMAIN source_data /\ ~empty(df)
               /\ i <= Len(df.rows) /\ <<column>> \in df.columns
            THEN LET ips == pool_ips(pool, split_ws(str(df.rows[i][<<column>>])))
                 IN  IF ips # <<>> THEN join(";", ips) ELSE None
            ELSE None
    IN  list_or_none([i \in 1..num_rows |-> value(i)])

_apply_mme_mapping(cfg, source_data, num_rows) ==
    pool_mapping(cfg, source_data, num_rows, "mme", "MME")

_apply_amf_mapping(cfg, source_data, num_rows) ==
    pool_mapping(cfg, source_data, num_rows, "amf", "AMF")

kw_bandwidth == <<"b", "a", "n", "d", "w", "i", "d", "t", "h">>
kw_earfcn == <<"e", "a", "r", "f", "c", "n">>
kw_frequency == <<"f", "r", "e", "q", "u", "e", "n", "c", "y">>
kw_mme == <<"m", "m", "e">>
kw_amf == <<"a", "m", "f">>

_apply_config_mapping(cfg, note, source_data, num_rows) ==
    LET note_lower == lower(note)
    IN  IF contains(note_lower, kw_bandwidth)
        THEN _apply_bandwidth_mapping(cfg, source_data, num_rows)
        ELSE IF contains(note_lower, kw_earfcn) \/ contains(note_lower, kw_frequency)
        THEN _apply_earfcn_mapping(cfg, source_data, num_rows)
        ELSE IF contains(note_lower, kw_mme)
        THEN _apply_mme_mapping(cfg, source_data, num_rows)
        ELSE IF contains(note_lower, kw_amf)
        THEN _apply_amf_mapping(cfg, source_data, num_rows)
        ELSE NoList

config_prefix == <<"c", "o", "n", "f", "i", "g", ":">>

\* df[source_column].tolist(), padded with None and cut to num_rows
column_values(df, source_column, num_rows) ==
    [i \in 1..num_rows |->
        IF i <= Len(df.rows) THEN df.rows[i][source_column] ELSE None]

\* Case 2 of _apply_single_rule applies: the sheet and the column exist.
has_source(rule, source_data) ==
    /\ rule.source_sheet # <<>> /\ rule.source_column # <<>>
    /\ rule.source_sheet \in DOMAIN source_data
    /\ rule.source_column \in source_data[rule.source_sheet].columns

\* MappingEngine._apply_single_rule
_apply_single_rule(cfg, rule, source_data, num_rows) ==
    LET fixed_value == rule.fixed_value
        fixed_val == strip(str(fixed_value))
        config_values ==
            IF rule.note # <<>>
            THEN _apply_config_mapping(cfg, rule.note, source_data, num_rows)
            ELSE NoList
    IN  IF notna(fixed_value) /\ fixed_val # <<>>
        THEN IF startswith(fixed_val, config_prefix)
             THEN repeat(_get_config_value(cfg, slice_from(fixed_val, 7)), num_rows)
             ELSE repeat(fixed_val, num_rows)
        ELSE IF has_source(rule, source_data)
        THEN column_values(source_data[rule.source_sheet], rule.source_column, num_rows)
        ELSE IF config_values # NoList
        THEN config_values
        ELSE repeat(None, num_rows)

-----------------------------------------------------------------------------
(* SPUProcessor: the Mapping sheet (src/src/processor.py)                  *)

\* The rule SPUProcessor._parse_mappings stores for one row.
processor_rule(row) ==
    [ column        |-> safe_str(get(row, <<"Column">>, None)),
      source_sheet  |-> safe_str(get(row, <<"SourceSheet">>, None)),
      source_column |-> safe_str(get(row, <<"SourceColumn">>, None)),
      fixed_value   |-> IF notna(get(row, <<"FixedValue">>, None))
                        THEN row[<<"FixedValue">>] ELSE None ]

\* One iteration of the loop of SPUProcessor._parse_mappings.
processor_add_row(acc, row) ==
    LET sheet == safe_str(get(row, <<"Sheet">>, None))
        rule == processor_rule(row)
        grouped == IF sheet \in DOMAIN acc THEN acc ELSE (sheet :> <<>>) @@ acc
    IN  IF sheet = <<>> \/ rule.column = <<>> THEN acc
        ELSE [grouped EXCEPT ![sheet] = Append(@, rule)]

RECURSIVE processor_add_rows(_, _)
processor_add_rows(acc, rows) ==
    IF rows = <<>> THEN acc
    ELSE processor_add_rows(processor_add_row(acc, Head(rows)), Tail(rows))

\* mapping_df[mapping_df["Version"] == self.version]
version_equals(row) == row[<<"Version">>] = version

\* SPUProcessor._parse_mappings: the exception it raises ("none" if none)
\* and self.mappings when it returns or raises.
SPUProcessor_parse_mappings(mapping_df) ==
    IF <<"Version">> \notin mapping_df.columns
    THEN [exc |-> "KeyError", mappings |-> EmptyDict]
    ELSE [exc |-> "none",
          mappings |-> processor_add_rows(EmptyDict,
                           SelectSeq(mapping_df.rows, version_equals))]

\* SPUProcessor._get_mapped_value
_get_mapped_value(mapping, source_row) ==
    LET source_col == mapping.source_column
    IN  IF mapping.fixed_value # None THEN mapping.fixed_value
        ELSE IF source_col # <<>> /\ source_col \in DOMAIN source_row
                /\ notna(source_row[source_col])
        THEN source_row[source_col]
        ELSE None

-----------------------------------------------------------------------------
(* Template workbooks.  A worksheet is a function from <<row, column>> to  *)
(* the cell's value, absent cells being empty; a workbook is a function    *)
(* from sheet names to worksheets.                                         *)

cell(ws, row, column) == get(ws, <<row, column>>, None)

\* ws.cell(row=row, column=column, value=value); openpyxl leaves the cell
\* as it is when the value is None.
write(ws, row, column, value) ==
    IF value = None THEN ws ELSE (<<row, column>> :> value) @@ ws

MaxColumn == 10

\* SPUProcessor._get_template_columns: header text -> position, the last
\* position winning when a text occurs twice.
RECURSIVE template_columns_from(_, _, _)
template_columns_from(ws, col, columns) ==
    IF col > MaxColumn THEN columns
    ELSE LET val == cell(ws, 2, col)
         IN  template_columns_from(ws, col + 1,
                 IF val # None /\ val # <<>> THEN (val :> col) @@ columns ELSE columns)

_get_template_columns(ws) == template_columns_from(ws, 1, EmptyDict)

primary_key == <<"Primary Key">>

\* SPUProcessor._find_data_start_row
RECURSIVE data_start_from(_, _)
data_start_from(ws, row) ==
    IF row > 9 THEN 6
    ELSE IF contains(IF cell(ws, row, 1) = None THEN <<>> ELSE str(cell(ws, row, 1)),
                     primary_key)
    THEN row + 1
    ELSE data_start_from(ws, row + 1)

_find_data_start_row(ws) == data_start_from(ws, 1)

-----------------------------------------------------------------------------
(* SPUProcessor._process_sheet_with_mapping: the generic path              *)

\* The inner loop: every mapping of the sheet applied to one source row.
RECURSIVE map_row(_, _, _, _, _)
map_row(ws, template_cols, maps, source_row, row) ==
    IF maps = <<>> THEN ws
    ELSE LET mapping == Head(maps)
             value == _get_mapped_value(mapping, source_row)
             ws1 == IF mapping.column \in DOMAIN template_cols /\ value # None
                    THEN write(ws, row, template_cols[mapping.column], value)
                    ELSE ws
         IN  map_row(ws1, template_cols, Tail(maps), source_row, row)

\* The outer loop over the rows of the primary source sheet.
RECURSIVE map_rows(_, _, _, _, _)
map_rows(ws, template_cols, maps, source_rows, row) ==
    IF source_rows = <<>> THEN ws
    ELSE map_rows(map_row(ws, template_cols, maps, Head(source_rows), row),
                  template_cols, maps, Tail(source_rows), row + 1)

\* The workbook after the routine for a target sheet other than RU (RU has
\* its own routine, _process_ru_with_mapping).
_process_sheet_with_mapping(book, maps_by_sheet, data, target_sheet, primary_source) ==
    LET source_df == get(data, primary_source, EmptyDF)
    IN  IF \/ target_sheet \notin DOMAIN book
           \/ target_sheet \notin DOMAIN maps_by_sheet
           \/ empty(source_df)
        THEN book
        ELSE LET ws == book[target_sheet]
             IN  [book EXCEPT ![target_sheet] =
                     map_rows(ws, _get_template_columns(ws), maps_by_sheet[target_sheet],
                              source_df.rows, _find_data_start_row(ws))]

-----------------------------------------------------------------------------
(* The state after construction, and the operations on it.                 *)

NoCall == [op |-> "none", exc |-> "none"]

\* SPUToolGUI.__init__: no file chosen, the process button enabled, no
\* thread started and no callback waiting in the event loop.
Window ==
    [ input_file_path |-> <<>>, template_file_path |-> <<>>,
      btn_process |-> "normal", loading |-> 0, read |-> <<>>,
      processing |-> 0, resets |-> 0 ]

\* SPUProcessor.__init__; no MappingEngine built yet.  The None of
\* input_data and of template_path is rendered as the empty mapping and the
\* empty text: before a value is set, the code only tests them for truth.
Constructed ==
    /\ config = Null
    /\ input_data = EmptyDict
    /\ template_path = <<>>
    /\ mappings = EmptyDict
    /\ engine = [config |-> Null, mappings |-> EmptyDict]
    /\ wb = EmptyDict
    /\ ret = NoCall
    /\ progress = <<>>
    /\ output_folder = EmptyDict
    /\ gui = Window

\* A config.json that cannot be read or parsed.
Unreadable == [kind |-> "unreadable"]

\* SPUProcessor.set_input_data(data), with config.json holding `file`.
set_input_data(data, file) ==
    LET load_fails == config = Null /\ file = Unreadable
        mapping_df == sheet_of(data, "Mapping")
        parses == <<"Mapping">> \in DOMAIN data /\ ~empty(mapping_df)
        parsed == SPUProcessor_parse_mappings(mapping_df)
    IN  /\ input_data' = data
        /\ config' = IF config = Null /\ ~load_fails THEN file ELSE config
        /\ mappings' = IF ~load_fails /\ parses THEN parsed.mappings ELSE mappings
        /\ ret' = [op |-> "set_input_data",
                   exc |-> IF load_fails THEN "Exception"
                           ELSE IF parses THEN parsed.exc
                           ELSE "none"]
        /\ UNCHANGED <<template_path, engine, wb, progress, output_folder>>

\* MappingEngine(mapping_df, config): built from the loaded Mapping sheet.
NewMappingEngine ==
    /\ input_data # EmptyDict
    /\ engine' = [config |-> config,
                  mappings |-> MappingEngine_parse_mappings(sheet_of(input_data, "Mapping"))]
    /\ ret' = [op |-> "MappingEngine", exc |-> "none"]
    /\ UNCHANGED <<config, input_data, template_path, mappings, wb, progress, output_folder, gui>>

\* engine._apply_single_rule(rule, source_data, num_rows), for the k-th rule
\* of a target sheet and the loaded source data.
ApplySingleRule(target_sheet, k, num_rows) ==
    /\ target_sheet \in DOMAIN engine.mappings
    /\ k \in 1..Len(engine.mappings[target_sheet])
    /\ LET rule == engine.mappings[target_sheet][k]
       IN  ret' = [op |-> "_apply_single_rule", exc |-> "none", rule |-> rule,
                   num_rows |-> num_rows,
                   val |-> _apply_single_rule(engine.config, rule, input_data, num_rows)]
    /\ UNCHANGED <<config, input_data, template_path, mappings, engine, wb, progress, output_folder, gui>>

\* processor._process_sheet_with_mapping(wb, target_sheet, primary_source)
\* on a workbook just loaded from a template.
ProcessSheetWithMapping(book, target_sheet, primary_source) ==
    /\ input_data # EmptyDict
    /\ config # Null
    /\ wb' = _process_sheet_with_mapping(book, mappings, input_data,
                                         target_sheet, primary_source)
    /\ ret' = [op |-> "_process_sheet_with_mapping", exc |-> "none", book |-> book,
               target_sheet |-> target_sheet, primary_source |-> primary_source]
    /\ UNCHANGED <<config, input_data, template_path, mappings, engine, progress, output_folder, gui>>

-----------------------------------------------------------------------------
(* Resolution of one mapping rule: the inputs.                             *)

MaxRows == 2

\* Every sequence over S of length 1..n.
SeqsUpTo(S, n) == UNION {[1..k -> S] : k \in 1..n}

MappingColumns ==
    { <<"Version">>, <<"Sheet">>, <<"Column">>, <<"SourceSheet">>,
      <<"SourceColumn">>, <<"FixedValue">>, <<"Note">>, <<"Meaning">> }

\* One row of the Mapping sheet.
MappingRow(ver, sheet, column, source_sheet, source_column, fixed_value, note) ==
    [c \in MappingColumns |->
        CASE c = <<"Version">> -> ver
          [] c = <<"Sheet">> -> sheet
          [] c = <<"Column">> -> column
          [] c = <<"SourceSheet">> -> source_sheet
          [] c = <<"SourceColumn">> -> source_column
          [] c = <<"FixedValue">> -> fixed_value
          [] c = <<"Note">> -> note
          [] OTHER -> NaN]

FixedValues ==
    { NaN, <<" ">>, <<"a">>, <<" ", "a", " ">>,
      config_prefix \o <<"a", ".", "b">>,        \* a string leaf
      config_prefix \o <<"a", ".", "x">>,        \* last segment missing
      config_prefix \o <<"b", ".", "a">>,        \* b is a leaf, not a mapping
      config_prefix \o <<"a", ".", "n">>,        \* a null leaf
      config_prefix \o <<"a">>,                  \* the path ends at a mapping
      <<" ">> \o config_prefix \o <<"a", ".", "k", " ">>,   \* a number leaf
      config_prefix }                            \* an empty path

SourceSheets == { NaN, <<"S">>, <<"Q">> }
SourceColumns == { NaN, <<"c">>, <<"z">> }
Notes ==
    { NaN, <<"B", "a", "n", "d", "w", "i", "d", "t", "h">>, <<"M", "M", "E">>,
      <<"x">> }

ResolveConfig ==
    Dict(   (<<"a">> :> Dict((<<"b">> :> Str(<<"leaf">>)) @@ (<<"n">> :> Null)
                             @@ (<<"k">> :> Num(7))))
         @@ (<<"b">> :> Str(<<"top">>))
         @@ (<<"SPU">> :> Dict(version :> Dict(
                 <<"bandwidth_mapping">> :> Dict(<<"20">> :> Num(5)))))
         @@ (<<"mme">> :> Dict(<<"MME1">> :> List(<< <<"ip1">>, <<"ip2">> >>))) )

ResolveConfigs == { ResolveConfig, EmptyNode }

Radio4G_Resolve ==
    [ columns |-> { <<"dlChannelBandwidth">>, <<"arfcndl">> },
      rows |-> << (<<"dlChannelBandwidth">> :> <<"20">>) @@ (<<"arfcndl">> :> <<"17">>),
                  (<<"dlChannelBandwidth">> :> <<"10">>) @@ (<<"arfcndl">> :> NaN) >> ]

IP_Resolve ==
    [ columns |-> { <<"MME">> },
      rows |-> << (<<"MME">> :> <<"MME1", " ", "MME9">>) >> ]

GenericTarget == <<"T">>

ResolveDatasets ==
    { (<<"Mapping">> :> [columns |-> MappingColumns,
                         rows |-> << MappingRow(version, GenericTarget, <<"x">>, ss, sc, fv, nt) >>])
      @@ (<<"S">> :> [columns |-> { <<"c">> },
                      rows |-> [i \in DOMAIN vals |-> (<<"c">> :> vals[i])]])
      @@ (<<"Radio 4G">> :> Radio4G_Resolve)
      @@ (<<"IP">> :> IP_Resolve) :
      fv \in FixedValues, ss \in SourceSheets, sc \in SourceColumns, nt \in Notes,
      vals \in SeqsUpTo({NaN, <<"v">>}, MaxRows) }

\* A template whose sheet T has the header x in column 2 and an old value
\* in the first data row.
GenericBook ==
    GenericTarget :> ((<<2, 1>> :> <<"id">>) @@ (<<2, 2>> :> <<"x">>)
                      @@ (<<6, 2>> :> <<"old">>))

\* The first load of a freshly constructed processor.
FirstLoad(datasets, files) ==
    /\ input_data = EmptyDict
    /\ \E data \in datasets, file \in files : set_input_data(data, file)
    /\ UNCHANGED gui

ResolveNext ==
    \/ FirstLoad(ResolveDatasets, ResolveConfigs)
    \/ NewMappingEngine
    \/ \E n \in 1..MaxRows : ApplySingleRule(GenericTarget, 1, n)
    \/ ProcessSheetWithMapping(GenericBook, GenericTarget, <<"S">>)

SpecResolve == Constructed /\ [][ResolveNext]_vars

-----------------------------------------------------------------------------
(* Claims about the resolution of one rule.                                *)

\* The rule of the loaded Mapping sheet, as the sheet states it.
TheRow == sheet_of(input_data, "Mapping").rows[1]
TheFixed == TheRow[<<"FixedValue">>]
FixedNonBlank == notna(TheFixed) /\ strip(str(TheFixed)) # <<>>
FixedIsConfig == FixedNonBlank /\ startswith(strip(str(TheFixed)), config_prefix)
SourceRows == sheet_of(input_data, "S").rows

\* The source sheet and column the rule names exist in the loaded data.
SourceGiven ==
    /\ notna(TheRow[<<"SourceSheet">>]) /\ notna(TheRow[<<"SourceColumn">>])
    /\ strip(str(TheRow[<<"SourceSheet">>])) \in DOMAIN input_data
    /\ strip(str(TheRow[<<"SourceColumn">>]))
           \in input_data[strip(str(TheRow[<<"SourceSheet">>]))].columns

\* The value the rule's source column holds for row i, None past the end.
SourceValue(i) ==
    LET df == input_data[strip(str(TheRow[<<"SourceSheet">>]))]
    IN  IF i <= Len(df.rows) THEN df.rows[i][strip(str(TheRow[<<"SourceColumn">>]))]
        ELSE None

\* What the note-keyword lookup yields for row i, None if nothing.
NoteValue(cfg, n, i) ==
    LET note == TheRow[<<"Note">>]
        values == IF isna(note) THEN NoList
                  ELSE _apply_config_mapping(cfg, strip(str(note)), input_data, n)
    IN  IF values = NoList THEN None ELSE values[i]

\* The stated priority order, for row i of n: fixed value, then a present
\* source value, then the note lookup, then nothing.
PriorityValue(cfg, n, i) ==
    IF FixedIsConfig
    THEN _get_config_value(cfg, slice_from(strip(str(TheFixed)), 7))
    ELSE IF FixedNonBlank THEN strip(str(TheFixed))
    ELSE IF SourceGiven /\ notna(SourceValue(i)) THEN SourceValue(i)
    ELSE NoteValue(cfg, n, i)

\* The cell of sheet T the generic path writes for source row i.
GenericCell(book, i) ==
    cell(book[GenericTarget], _find_data_start_row(GenericBook[GenericTarget]) + i - 1,
         _get_template_columns(GenericBook[GenericTarget])[<<"x">>])

\* C1 (as stated): a rule resolves by the fixed priority order -- a
\* non-blank fixed value, else the source column's value for the row
\* unless that value is absent/NaN, else the note-keyword lookup -- both in
\* MappingEngine._apply_single_rule and in the processor's generic path
\* (which has no note lookup), and a rule that yields nothing leaves the
\* destination cell as the template had it.
C1_PriorityOrder ==
    /\ ret.op = "_apply_single_rule" =>
           \A i \in 1..ret.num_rows :
               LET claimed == PriorityValue(engine.config, ret.num_rows, i)
               IN  IF isna(claimed) THEN isna(ret.val[i]) ELSE ret.val[i] = claimed
    /\ (ret.op = "_process_sheet_with_mapping" /\ (FixedNonBlank \/ isna(TheFixed))) =>
           \A i \in 1..Len(SourceRows) :
               LET written == GenericCell(wb, i)
                   src == SourceRows[i][<<"c">>]
               IN  IF FixedNonBlank THEN strip(written) = strip(str(TheFixed))
                   ELSE IF notna(TheRow[<<"SourceColumn">>])
                           /\ strip(str(TheRow[<<"SourceColumn">>])) = <<"c">>
                           /\ notna(src)
                   THEN written = src
                   ELSE written = GenericCell(GenericBook, i)

\* C2 (as stated): a non-blank fixed value without the config: prefix
\* resolves to the trimmed literal for every source row, in the
\* MappingEngine and in the processor.
C2_FixedLiteral ==
    /\ (ret.op = "_apply_single_rule" /\ FixedNonBlank /\ ~FixedIsConfig) =>
           \A i \in 1..ret.num_rows : ret.val[i] = strip(str(TheFixed))
    /\ (ret.op = "_process_sheet_with_mapping" /\ FixedNonBlank /\ ~FixedIsConfig) =>
           \A i \in 1..Len(SourceRows) : GenericCell(wb, i) = strip(str(TheFixed))

\* The node a sequence of path segments leads to, read from the last
\* segment back; Missing if a segment is absent or its parent is no mapping.
Missing == [kind |-> "missing"]
RECURSIVE node_at(_, _)
node_at(root, segments) ==
    IF segments = <<>> THEN root
    ELSE LET parent == node_at(root, SubSeq(segments, 1, Len(segments) - 1))
             last == segments[Len(segments)]
         IN  IF parent.kind = "dict" /\ last \in DOMAIN parent.items
             THEN parent.items[last]
             ELSE Missing

-----------------------------------------------------------------------------
(* Parsing of the Mapping sheet: the inputs.                               *)

OtherVersion == <<"V2.00.00">>
Versions == { version, OtherVersion, NaN, <<>> }

\* The target sheet and target column of a row, given or not.
Targets ==
    { <<GenericTarget, <<"x">> >>, <<GenericTarget, <<"y">> >>,
      <<NaN, <<"x">> >>, << <<" ">>, <<"x">> >>,
      <<GenericTarget, NaN>>, <<GenericTarget, <<" ">> >> }

ParseRows ==
    { MappingRow(ver, t[1], t[2], <<"S">>, <<"c">>, NaN, NaN) :
      ver \in Versions, t \in Targets }

\* The same row in a Mapping sheet that has no Version column.
without_version(row) == [c \in MappingColumns \ { <<"Version">> } |-> row[c]]

ParseDatasets ==
    { (<<"Mapping">> :> [columns |-> MappingColumns, rows |-> rows])
      @@ (<<"S">> :> [columns |-> { <<"c">> }, rows |-> << (<<"c">> :> <<"v">>) >>]) :
      rows \in SeqsUpTo(ParseRows, MaxRows) }
    \cup
    { (<<"Mapping">> :> [columns |-> MappingColumns \ { <<"Version">> },
                         rows |-> [i \in DOMAIN rows |-> without_version(rows[i])]])
      @@ (<<"S">> :> [columns |-> { <<"c">> }, rows |-> << (<<"c">> :> <<"v">>) >>]) :
      rows \in SeqsUpTo({r \in ParseRows : r[<<"Version">>] = version}, MaxRows) }

ParseNext ==
    \/ FirstLoad(ParseDatasets, {ResolveConfig})
    \/ NewMappingEngine

SpecParse == Constructed /\ [][ParseNext]_vars

-----------------------------------------------------------------------------
(* Claims about the parsing of the Mapping sheet.                          *)

MappingRows == sheet_of(input_data, "Mapping").rows
HasVersionColumn == <<"Version">> \in sheet_of(input_data, "Mapping").columns

\* A blank or absent cell.
Blank(value) == isna(value) \/ strip(str(value)) = <<>>

VersionSelected(row) == row[<<"Version">>] = version
VersionKept(row) == VersionSelected(row) \/ Blank(row[<<"Version">>])
TargetGiven(row) == ~Blank(row[<<"Sheet">>]) /\ ~Blank(row[<<"Column">>])

\* What the parse is to keep: per target sheet, the target columns of the
\* kept rows, in the order of the sheet.
RECURSIVE KeptFrom(_)
KeptFrom(rows) ==
    IF rows = <<>> THEN EmptyDict
    ELSE LET row == rows[Len(rows)]
             before == KeptFrom(SubSeq(rows, 1, Len(rows) - 1))
             sheet == strip(str(row[<<"Sheet">>]))
             column == strip(str(row[<<"Column">>]))
         IN  IF ~(VersionKept(row) /\ TargetGiven(row)) THEN before
             ELSE IF sheet \in DOMAIN before
                  THEN [before EXCEPT ![sheet] = Append(@, column)]
                  ELSE (sheet :> <<column>>) @@ before

\* What a parse produced: per group, the target columns of its rules.
ProcessorColumns ==
    [sheet \in DOMAIN mappings |->
        [i \in DOMAIN mappings[sheet] |-> mappings[sheet][i].column]]
EngineColumns ==
    [sheet \in DOMAIN engine.mappings |->
        [i \in DOMAIN engine.mappings[sheet] |-> engine.mappings[sheet][i].target_column]]

\* C4: a rule row is kept if and only if its Version equals the selected
\* version or is blank; checked on sheets whose rows all name a target, for
\* the parse of the processor and for the parse of the MappingEngine.
C4_VersionFilter ==
    (/\ ret.op \in {"set_input_data", "MappingEngine"}
     /\ HasVersionColumn
     /\ \A i \in DOMAIN MappingRows : TargetGiven(MappingRows[i])) =>
        /\ ret.exc = "none"
        /\ ret.op = "set_input_data" => ProcessorColumns = KeptFrom(MappingRows)
        /\ ret.op = "MappingEngine" => EngineColumns = KeptFrom(MappingRows)

\* C5: a row whose target sheet or target column is blank or absent gives
\* no rule and no group, and raises nothing; checked on sheets whose rows
\* all carry the selected version.
C5_BlankTargetDiscarded ==
    (/\ ret.op \in {"set_input_data", "MappingEngine"}
     /\ HasVersionColumn
     /\ \A i \in DOMAIN MappingRows : VersionSelected(MappingRows[i])) =>
        /\ ret.exc = "none"
        /\ ret.op = "set_input_data" => ProcessorColumns = KeptFrom(MappingRows)
        /\ ret.op = "MappingEngine" => EngineColumns = KeptFrom(MappingRows)

-----------------------------------------------------------------------------
(* SPUProcessor._process_sctp_sheet (src/src/processor.py)                 *)

\* An integer as a cell value.
num(n) == <<ToString(n)>>

\* 'if "name" in template_cols: ws.cell(row=row, column=..., value=value)'
\* for the fields of one output row, in the order of the code.
RECURSIVE write_fields(_, _, _, _)
write_fields(ws, template_cols, row, fields) ==
    IF fields = <<>> THEN ws
    ELSE LET name == Head(fields)[1]
             value == Head(fields)[2]
         IN  write_fields(IF name \in DOMAIN template_cols
                          THEN write(ws, row, template_cols[name], value)
                          ELSE ws,
                          template_cols, row, Tail(fields))

\* The ten fields of one association row.
sctp_fields(ne_name, sctp_no, port, local_ip, remote_ip, radio_mode, asso_type, nb_id) ==
    << << <<"meId">>, ne_name >>, << <<"sctpNo">>, num(sctp_no) >>,
       << <<"localPort">>, num(port) >>, << <<"localIp">>, local_ip >>,
       << <<"remotePort">>, num(port) >>, << <<"remoteIp">>, remote_ip >>,
       << <<"radioMode">>, num(radio_mode) >>, << <<"assoType">>, num(asso_type) >>,
       << <<"NBId">>, nb_id >>, << <<"pLMNId">>, <<"452-04">> >> >>

\* The addresses of a name taken as configured, placeholders included.
remote_ips_unfiltered(pool, name) == pool.items[name].val

\* '[ip for ip in pool[name] if ip and ip != "0.0.0.0"]'
remote_ips_of(pool, name) ==
    SelectSeq(pool.items[name].val, LAMBDA ip : ip # <<>> /\ ip # <<"0.0.0.0">>)

\* A loop that counts every name, also a name that writes no row.
RECURSIVE pool_entries_counting(_, _, _, _, _, _, _, _, _)
pool_entries_counting(st, names, pool, template_cols, ne_name, local_ip, port, radio_mode, nb_id) ==
    IF names = <<>> THEN st
    ELSE LET name == Head(names)
             remote_ips == IF has_key(pool, name) THEN remote_ips_of(pool, name) ELSE <<>>
             fields == sctp_fields(ne_name, st.sctp_no, port,
                                   join(";", repeat(local_ip, Len(remote_ips))),
                                   join(";", remote_ips), radio_mode, 1, nb_id)
             st1 == IF remote_ips # <<>>
                    THEN [ws |-> write_fields(st.ws, template_cols, st.row, fields),
                          row |-> st.row + 1, sctp_no |-> st.sctp_no + 1]
                    ELSE [st EXCEPT !.sctp_no = @ + 1]
         IN  pool_entries_counting(st1, Tail(names), pool, template_cols, ne_name,
                                   local_ip, port, radio_mode, nb_id)

\* The loop over the MME (or AMF) names of one element: st is
\* [ws, row, sctp_no]; a name that is not configured, or has no address
\* left, writes nothing and advances nothing.
RECURSIVE pool_entries(_, _, _, _, _, _, _, _, _)
pool_entries(st, names, pool, template_cols, ne_name, local_ip, port, radio_mode, nb_id) ==
    IF names = <<>> THEN st
    ELSE LET name == Head(names)
             remote_ips == IF has_key(pool, name) THEN remote_ips_of(pool, name) ELSE <<>>
             fields == sctp_fields(ne_name, st.sctp_no, port,
                                   join(";", repeat(local_ip, Len(remote_ips))),
                                   join(";", remote_ips), radio_mode, 1, nb_id)
             st1 == IF remote_ips # <<>>
                    THEN [ws |-> write_fields(st.ws, template_cols, st.row, fields),
                          row |-> st.row + 1, sctp_no |-> st.sctp_no + 1]
                    ELSE st
         IN  pool_entries(st1, Tail(names), pool, template_cols, ne_name, local_ip,
                          port, radio_mode, nb_id)

\* 'if mme_str: for mme_name in mme_str.split()'
mme_names(ip_row) == split_ws(safe_str(get(ip_row, <<"MME">>, <<>>)))

\* The AMF names taken whether or not the element has an NR IP.
amf_names_any(ip_row) == split_ws(safe_str(get(ip_row, <<"AMF">>, <<>>)))

\* 'if amf_str and nr_ip: for amf_name in amf_str.split()'
amf_names(ip_row) ==
    IF safe_str(get(ip_row, <<"NR_IP">>, <<>>)) # <<>>
    THEN split_ws(safe_str(get(ip_row, <<"AMF">>, <<>>)))
    ELSE <<>>

\* 'if lte_ip and nr_ip': the two X2 rows, LTE -> NR then NR -> LTE.
x2_entries(st, template_cols, ne_name, lte_ip, nr_ip, enb_id, gnb_id) ==
    IF lte_ip # <<>> /\ nr_ip # <<>>
    THEN LET first == write_fields(st.ws, template_cols, st.row,
                          sctp_fields(ne_name, st.sctp_no, 36422, lte_ip, nr_ip, 48, 5, enb_id))
             second == write_fields(first, template_cols, st.row + 1,
                          sctp_fields(ne_name, st.sctp_no + 1, 36422, nr_ip, lte_ip, 8192, 5, gnb_id))
         IN  [ws |-> second, row |-> st.row + 2, sctp_no |-> st.sctp_no + 2]
    ELSE st

\* One iteration of the loop over the IP rows: the rows of one element,
\* numbered from 1.
sctp_element(ws, row, ip_row, cfg, template_cols) ==
    LET ne_name == safe_str(get(ip_row, <<"NE_Name">>, <<>>))
        lte_ip == safe_str(get(ip_row, <<"LTE_IP">>, <<>>))
        nr_ip == safe_str(get(ip_row, <<"NR_IP">>, <<>>))
        enb_id == safe_str(get(ip_row, <<"eNBId">>, <<>>))
        gnb_id == safe_str(get(ip_row, <<"gNBId">>, <<>>))
        mme == pool_entries([ws |-> ws, row |-> row, sctp_no |-> 1], mme_names(ip_row),
                            cfg_get(cfg, "mme"), template_cols, ne_name, lte_ip,
                            36412, 48, enb_id)
        amf == pool_entries(mme, amf_names(ip_row), cfg_get(cfg, "amf"), template_cols,
                            ne_name, nr_ip, 38412, 8192, gnb_id)
    IN  x2_entries(amf, template_cols, ne_name, lte_ip, nr_ip, enb_id, gnb_id)

RECURSIVE sctp_elements(_, _, _, _, _)
sctp_elements(ws, row, ip_rows, cfg, template_cols) ==
    IF ip_rows = <<>> THEN ws
    ELSE LET st == sctp_element(ws, row, Head(ip_rows), cfg, template_cols)
         IN  sctp_elements(st.ws, st.row, Tail(ip_rows), cfg, template_cols)

\* The workbook after SPUProcessor._process_sctp_sheet(wb).
_process_sctp_sheet(book, cfg, data) ==
    LET ip_df == sheet_of(data, "IP")
    IN  IF <<"Sctp">> \notin DOMAIN book \/ empty(ip_df) THEN book
        ELSE LET ws == book[<<"Sctp">>]
             IN  [book EXCEPT ![<<"Sctp">>] =
                     sctp_elements(ws, _find_data_start_row(ws), ip_df.rows, cfg,
                                   _get_template_columns(ws))]

\* wb = load_workbook(template) followed by self._process_sctp_sheet(wb).
ProcessSctpSheet(book) ==
    /\ input_data # EmptyDict
    /\ config # Null
    /\ wb' = _process_sctp_sheet(book, config, input_data)
    /\ ret' = [op |-> "_process_sctp_sheet", exc |-> "none", book |-> book]
    /\ UNCHANGED <<config, input_data, template_path, mappings, engine, progress, output_folder, gui>>

-----------------------------------------------------------------------------
(* The SCTP routine: the inputs.                                           *)

\* The MME and AMF pools: M0 has no usable address, M9 and A9 are unknown.
SctpConfig ==
    Dict(   (<<"mme">> :> Dict(   (<<"M0">> :> List(<< <<"0.0.0.0">>, <<>> >>))
                               @@ (<<"M1">> :> List(<< <<"1.1.1.1">>, <<"0.0.0.0">>,
                                                        <<"1.1.1.2">> >>))
                               @@ (<<"M2">> :> List(<< <<"2.2.2.2">> >>))))
         @@ (<<"amf">> :> Dict(   (<<"A1">> :> List(<< <<"5.5.5.1">> >>))
                               @@ (<<"A2">> :> List(<< <<"0.0.0.0">>, <<"5.5.5.2">> >>)))) )

SctpConfigs == { SctpConfig, Dict((<<"province">> :> EmptyNode)) }

IPColumns ==
    { <<"NE_Name">>, <<"LTE_IP">>, <<"NR_IP">>, <<"eNBId">>, <<"gNBId">>,
      <<"MME">>, <<"AMF">> }

\* What one element may hold in its LTE_IP, NR_IP, MME and AMF cells.
ElementCells ==
    [ LTE_IP : { NaN, <<"10.0.0.4">> },
      NR_IP  : { NaN, <<"10.0.0.5">> },
      MME    : { NaN, <<"M0", " ", "M1", " ", "M9">>, <<"M1", " ", "M2">> },
      AMF    : { NaN, <<"A9", " ", "A1", " ", "A2">> } ]

\* The i-th row of the IP sheet; element names and ids are distinct.
IPRow(i, cells) ==
    [c \in IPColumns |->
        CASE c = <<"NE_Name">> -> <<"NE" \o ToString(i)>>
          [] c = <<"eNBId">> -> <<"e" \o ToString(i)>>
          [] c = <<"gNBId">> -> <<"g" \o ToString(i)>>
          [] c = <<"LTE_IP">> -> cells.LTE_IP
          [] c = <<"NR_IP">> -> cells.NR_IP
          [] c = <<"MME">> -> cells.MME
          [] OTHER -> cells.AMF]

SctpDatasets ==
    { (<<"IP">> :> [columns |-> IPColumns,
                    rows |-> [i \in DOMAIN els |-> IPRow(i, els[i])]]) :
      els \in SeqsUpTo(ElementCells, MaxRows) }

\* A template whose Sctp sheet has the ten headers in row 2.
SctpHeaders ==
    << <<"meId">>, <<"sctpNo">>, <<"localPort">>, <<"localIp">>, <<"remotePort">>,
       <<"remoteIp">>, <<"radioMode">>, <<"assoType">>, <<"NBId">>, <<"pLMNId">> >>

SctpBook == <<"Sctp">> :> [rc \in {2} \X (1..10) |-> SctpHeaders[rc[2]]]

SctpNext ==
    \/ FirstLoad(SctpDatasets, SctpConfigs)
    \/ ProcessSctpSheet(SctpBook)

SpecSctp == Constructed /\ [][SctpNext]_vars

-----------------------------------------------------------------------------
(* Claims about the SCTP routine.                                          *)

Elements == sheet_of(input_data, "IP").rows
SctpSheet == wb[<<"Sctp">>]
SctpCols == _get_template_columns(SctpBook[<<"Sctp">>])
SctpStart == _find_data_start_row(SctpBook[<<"Sctp">>])
SctpCell(r, name) == cell(SctpSheet, r, SctpCols[<<name>>])

\* The rows of the sheet that carry the name of element e.
SctpRowsOf(e) ==
    { r \in SctpStart..(SctpStart + 6 * Len(Elements)) :
        SctpCell(r, "meId") = Elements[e][<<"NE_Name">>] }

\* The position of row r among the rows of element e.
SctpIndex(e, r) == 1 + Cardinality({q \in SctpRowsOf(e) : q < r})

HasIP(e, column) == ~Blank(Elements[e][<<column>>])

\* A configured name with at least one address other than 0.0.0.0.
Usable(pool_key, name) ==
    LET pool == cfg_get(config, pool_key)
    IN  /\ has_key(pool, name)
        /\ \E i \in DOMAIN pool.items[name].val :
               pool.items[name].val[i] \notin { <<>>, <<"0.0.0.0">> }

\* How many names of the cell are to give a row.
UsableNames(e, column, pool_key) ==
    LET names == IF Blank(Elements[e][<<column>>]) THEN <<>>
                 ELSE split_ws(Elements[e][<<column>>])
    IN  Cardinality({ i \in DOMAIN names : Usable(pool_key, names[i]) })

ExpectedMME(e) == UsableNames(e, "MME", "mme")
ExpectedAMF(e) == IF HasIP(e, "NR_IP") THEN UsableNames(e, "AMF", "amf") ELSE 0
ExpectedX2(e) == IF HasIP(e, "LTE_IP") /\ HasIP(e, "NR_IP") THEN 2 ELSE 0

\* C9: the rows of one element are consecutive and carry sctpNo 1, 2, 3, ...
\* without gap or repeat, MME rows first, then AMF rows, then X2 rows; every
\* element starts again at 1 and skipped names take no number.
C9_SctpNumbering ==
    ret.op = "_process_sctp_sheet" =>
        \A e \in DOMAIN Elements :
            LET rows == SctpRowsOf(e)
            IN  /\ Cardinality(rows) = ExpectedMME(e) + ExpectedAMF(e) + ExpectedX2(e)
                /\ \A r \in rows :
                       LET k == SctpIndex(e, r)
                       IN  /\ SctpCell(r, "sctpNo") = num(k)
                           /\ k > 1 => (r - 1) \in rows
                           /\ SctpCell(r, "localPort") =
                                  IF k <= ExpectedMME(e) THEN num(36412)
                                  ELSE IF k <= ExpectedMME(e) + ExpectedAMF(e) THEN num(38412)
                                  ELSE num(36422)

\* Element 1 skips M0 and M9 and gets five rows; element 2 starts at 1 on
\* the next row.
C9_Witness ==
    /\ ret.op = "_process_sctp_sheet"
    /\ Len(Elements) = 2
    /\ Elements[1][<<"MME">>] = <<"M0", " ", "M1", " ", "M9">>
    /\ SctpCell(SctpStart + 4, "meId") = <<"NE1">>
    /\ SctpCell(SctpStart + 4, "sctpNo") = num(5)
    /\ SctpCell(SctpStart + 5, "meId") = <<"NE2">>
    /\ SctpCell(SctpStart + 5, "sctpNo") = num(1)

\* C10: AMF rows, and rows of radioMode 8192, only for an element with an
\* NR IP; with an LTE IP and an NR IP exactly two X2 rows, LTE -> NR with
\* radioMode 48 and the eNB id, then NR -> LTE with radioMode 8192 and the
\* gNB id, both on port 36422 with association type 5; otherwise no X2 row.
C10_NrSideRows ==
    ret.op = "_process_sctp_sheet" =>
        \A e \in DOMAIN Elements :
            LET rows == SctpRowsOf(e)
                x2 == { r \in rows : SctpCell(r, "localPort") = num(36422)
                                     \/ SctpCell(r, "assoType") = num(5) }
            IN  /\ ~HasIP(e, "NR_IP") =>
                       \A r \in rows : /\ SctpCell(r, "localPort") # num(38412)
                                       /\ SctpCell(r, "radioMode") # num(8192)
                /\ IF HasIP(e, "LTE_IP") /\ HasIP(e, "NR_IP")
                   THEN \E r \in rows :
                          /\ x2 = { r, r + 1 }
                          /\ SctpCell(r, "radioMode") = num(48)
                          /\ SctpCell(r, "NBId") = Elements[e][<<"eNBId">>]
                          /\ SctpCell(r, "localIp") = Elements[e][<<"LTE_IP">>]
                          /\ SctpCell(r, "remoteIp") = Elements[e][<<"NR_IP">>]
                          /\ SctpCell(r + 1, "radioMode") = num(8192)
                          /\ SctpCell(r + 1, "NBId") = Elements[e][<<"gNBId">>]
                          /\ SctpCell(r + 1, "localIp") = Elements[e][<<"NR_IP">>]
                          /\ SctpCell(r + 1, "remoteIp") = Elements[e][<<"LTE_IP">>]
                          /\ \A q \in x2 : /\ SctpCell(q, "localPort") = num(36422)
                                           /\ SctpCell(q, "remotePort") = num(36422)
                                           /\ SctpCell(q, "assoType") = num(5)
                   ELSE x2 = {}

\* Element 1 names AMFs but has no NR IP and gets no row at all; element 2
\* has both IPs and gets its two X2 rows.
C10_Witness ==
    /\ ret.op = "_process_sctp_sheet"
    /\ config = SctpConfig
    /\ Len(Elements) = 2
    /\ Elements[1][<<"AMF">>] # NaN /\ Elements[1][<<"NR_IP">>] = NaN
    /\ Elements[1][<<"MME">>] = NaN
    /\ Elements[2][<<"MME">>] = NaN /\ Elements[2][<<"AMF">>] = NaN
    /\ SctpCell(SctpStart, "meId") = <<"NE2">>
    /\ SctpCell(SctpStart, "radioMode") = num(48)
    /\ SctpCell(SctpStart + 1, "radioMode") = num(8192)
    /\ SctpCell(SctpStart + 1, "sctpNo") = num(2)

-----------------------------------------------------------------------------
(* SPUProcessor._process_cell4g_sheet (src/src/processor.py)               *)

\* A field whose computation raises: the exception in place of the value.
raises(exc) == <<"raise", exc>>
is_raise(value) == Len(value) = 2 /\ value[1] = "raise"

\* The writes of one output row, stopping at the first field of the
\* template whose computation raises: [exc, ws].
RECURSIVE write_row(_, _, _, _)
write_row(ws, template_cols, row, fields) ==
    IF fields = <<>> THEN [exc |-> "none", ws |-> ws]
    ELSE LET name == Head(fields)[1]
             value == Head(fields)[2]
         IN  IF name \notin DOMAIN template_cols
             THEN write_row(ws, template_cols, row, Tail(fields))
             ELSE IF is_raise(value) THEN [exc |-> value[2], ws |-> ws]
             ELSE write_row(write(ws, row, template_cols[name], value),
                            template_cols, row, Tail(fields))

\* str.upper(), on the letters the inputs use.
upper_char(c) ==
    CASE c = "f" -> "F" [] c = "d" -> "D" [] c = "t" -> "T" [] c = "r" -> "R"
      [] c = "a" -> "A" [] c = "u" -> "U" [] OTHER -> c
upper(s) == [i \in 1..Len(s) |-> upper_char(s[i])]

\* safe_int(value, 0) as an integer.
int_or_zero(value) == int_of(safe_int(value, num(0)))

\* A code taken from the tiers alone, whatever the table lists.
get_bandwidth_code_tiers_only(bandwidth_mapping, bw) ==
    IF bw >= 20 THEN Num(5)
    ELSE IF bw >= 15 THEN Num(4)
    ELSE IF bw >= 10 THEN Num(3)
    ELSE IF bw >= 5 THEN Num(2)
    ELSE IF bw >= 3 THEN Num(1)
    ELSE Num(0)

\* get_bandwidth_code(bw): the config table's entry, whatever it is, or
\* the tiered fallback.
get_bandwidth_code(bandwidth_mapping, bw) ==
    LET bw_str == IF bw # 0 THEN <<ToString(bw) \o ".0">> ELSE <<"0">>
    IN  IF has_key(bandwidth_mapping, bw_str) THEN bandwidth_mapping.items[bw_str]
        ELSE IF bw >= 20 THEN Num(5)
        ELSE IF bw >= 15 THEN Num(4)
        ELSE IF bw >= 10 THEN Num(3)
        ELSE IF bw >= 5 THEN Num(2)
        ELSE IF bw >= 3 THEN Num(1)
        ELSE Num(0)

\* 'sample_rate_cfg = 2 if bw_code >= 4 else 0': comparing anything but a
\* number with 4 raises TypeError.
sample_rate_cfg(bw_code) ==
    IF bw_code.kind = "num" THEN num(IF bw_code.val >= 4 THEN 2 ELSE 0)
    ELSE raises("TypeError")

\* A routine that takes the number of transmit antennas as the port count.
cell_rs_port_num_antennas(mimo) ==
    LET mimo_upper == upper(mimo)
    IN  IF contains(mimo_upper, <<"4", "T">>) THEN 4
        ELSE IF contains(mimo_upper, <<"2", "T">>) THEN 2
        ELSE 1

\* cellRSPortNum from the MIMO text.
cell_rs_port_num(mimo) ==
    LET mimo_upper == upper(mimo)
    IN  IF contains(mimo_upper, <<"4", "T">>) THEN 2
        ELSE IF contains(mimo_upper, <<"2", "T">>) THEN 1
        ELSE IF contains(mimo_upper, <<"8", "T", "8", "R">>) THEN 3
        ELSE 1

\* The TDD pattern: 0,2 eight times, 1,3 eight times, and both once more.
tdd_pattern ==
    [i \in 1..64 |->
        IF ((i - 1) \div 16) % 2 = 0
        THEN (IF i % 2 = 1 THEN 0 ELSE 2)
        ELSE (IF i % 2 = 1 THEN 1 ELSE 3)]

\* A pattern chosen by the first characters of the port code.
base_pattern_by_prefix(rru_port_str) ==
    [i \in 1..64 |->
        IF startswith(rru_port_str, <<"1", "2">>) /\ i <= 2 THEN i - 1
        ELSE IF startswith(rru_port_str, <<"3", "4">>) /\ i \in 3..4 THEN i - 3
        ELSE 15]

\* 'base_pattern = [15] * 64' with the entries the port code selects.
base_pattern(rru_port_str) ==
    [i \in 1..64 |->
        CASE rru_port_str = <<"1", "2">> /\ i \in 1..2 -> i - 1
          [] rru_port_str = <<"3", "4">> /\ i \in 3..4 -> i - 3
          [] rru_port_str = <<"1", "2", "3", "4">> /\ i \in 1..4 -> i - 1
          [] rru_port_str = <<"1">> /\ i = 1 -> 0
          [] rru_port_str = <<"2">> /\ i = 2 -> 1
          [] rru_port_str = <<"3">> /\ i = 3 -> 0
          [] rru_port_str = <<"4">> /\ i = 4 -> 1
          [] OTHER -> 15]

\* SPUProcessor._get_ant_to_port_map: ';'.join(str(x) for x in pattern).
_get_ant_to_port_map(rru_port, cell_type) ==
    LET pattern == IF upper(cell_type) = <<"T", "D", "D">> THEN tdd_pattern
                   ELSE base_pattern(strip(str(rru_port)))
    IN  join(";", [i \in 1..64 |-> <<ToString(pattern[i])>>])

\* nRearfcn: the ssbFrequency of the Radio 5G row whose nRCell is the
\* row's Relation 5G; None where the code writes nothing.
nRearfcn(data, relation_5g) ==
    LET radio5g == sheet_of(data, "Radio 5G")
    IN  IF relation_5g = <<>> THEN None
        ELSE IF empty(radio5g) \/ <<"ssbFrequency">> \notin radio5g.columns THEN None
        ELSE IF <<"nRCell">> \notin radio5g.columns THEN raises("KeyError")
        ELSE LET matching_5g == SelectSeq(radio5g.rows,
                                          LAMBDA r : r[<<"nRCell">>] = relation_5g)
             IN  IF matching_5g = <<>> THEN None
                 ELSE IF notna(matching_5g[1][<<"ssbFrequency">>])
                 THEN matching_5g[1][<<"ssbFrequency">>]
                 ELSE None

\* A routine that protects no column from the fixed values.
cell4g_nothing_set == {}

\* Columns of cell4g the routine computes itself.
cell4g_already_set ==
    { <<"meId">>, <<"functionUserLabel">>, <<"eNBId">>, <<"cellLocalId">>, <<"userLabel">>,
      <<"radioMode">>, <<"pci">>, <<"tac">>, <<"rootSequenceIndex">>, <<"cpSpeRefSigPwr">>,
      <<"sectorFunctionId">>, <<"earfcnDl">>, <<"cpId">>, <<"functionMoId">>,
      <<"bandIndicator">>, <<"earfcnUl">>, <<"earfcn">>, <<"bandWidthDl">>,
      <<"bandWidthUl">>, <<"bandWidth">>, <<"paForDTCH">>, <<"cellRSPortNum">>,
      <<"sampleRateCfg">>, <<"bpPoolFunctionId">>, <<"anttoPortMap">>, <<"nRearfcn">> }

\* The fixed values of a sheet: those of the config, overlaid by the
\* fixed values of the sheet's mapping rules (the last rule of a column wins).
RECURSIVE overlay_fixed(_, _)
overlay_fixed(fixed_values, maps) ==
    IF maps = <<>> THEN fixed_values
    ELSE overlay_fixed(IF Head(maps).fixed_value # None
                       THEN (Head(maps).column :> Head(maps).fixed_value) @@ fixed_values
                       ELSE fixed_values,
                       Tail(maps))

fixed_values_of(config_fixed, maps_by_sheet, sheet) ==
    overlay_fixed(IF config_fixed.kind = "dict"
                  THEN [k \in DOMAIN config_fixed.items |-> py_str(config_fixed.items[k])]
                  ELSE EmptyDict,
                  get(maps_by_sheet, sheet, <<>>))

\* 'for col_name, fixed_val in fixed_values.items(): ... if col_name not in
\* already_set': the fields, one per column; they go to different cells.
RECURSIVE fixed_fields(_, _)
fixed_fields(fixed_values, already_set) ==
    IF DOMAIN fixed_values = {} THEN <<>>
    ELSE LET k == CHOOSE k \in DOMAIN fixed_values : TRUE
             rest == [j \in DOMAIN fixed_values \ {k} |-> fixed_values[j]]
         IN  (IF k \in already_set THEN <<>> ELSE << <<k, fixed_values[k]>> >>)
             \o fixed_fields(rest, already_set)

\* The fields of one cell4g row, in the order of the code.
cell4g_fields(cfg, data, fixed_values, source_row) ==
    LET spu_config == cfg_get(cfg_get(cfg, "SPU"), version[1])
        bandwidth_mapping == cfg_get(spu_config, "bandwidth_mapping")
        band_indicator_mapping == cfg_get(spu_config, "bandIndicator_mapping")
        earfcn_mapping == cfg_get(spu_config, "earfcn_mapping")
        ne_name == safe_str(get(source_row, <<"NE_Name">>, <<>>))
        enb_id == safe_str(get(source_row, <<"eNBId">>, <<>>))
        cell_id == safe_str(get(source_row, <<"cellId">>, <<>>))
        cell_name == safe_str(get(source_row, <<"CellName">>, <<>>))
        cell_type == safe_str(get(source_row, <<"CellType">>, <<>>))
        mimo == safe_str(get(source_row, <<"MIMO">>, <<>>))
        arfcn_dl == get(source_row, <<"arfcndl">>, <<>>)
        arfcn_ul == get(source_row, <<"arfcnul">>, <<>>)
        dl_channel_bandwidth == get(source_row, <<"dlChannelBandwidth">>, <<>>)
        ul_channel_bandwidth == get(source_row, <<"ulChannelBandwidth">>, dl_channel_bandwidth)
        dl_bw == int_or_zero(dl_channel_bandwidth)
        ul_bw == int_of(safe_int(ul_channel_bandwidth, num(dl_bw)))
        fdd == upper(cell_type) = <<"F", "D", "D">>
        mapped(value) == table_get(earfcn_mapping, num(int_or_zero(value)), value)
    IN  << << <<"meId">>, ne_name >>, << <<"functionUserLabel">>, ne_name >>,
           << <<"eNBId">>, enb_id >>, << <<"cellLocalId">>, cell_id >>,
           << <<"userLabel">>, cell_name >>, << <<"radioMode">>, cell_type >>,
           << <<"pci">>, get(source_row, <<"PCI">>, <<>>) >>,
           << <<"tac">>, get(source_row, <<"TAC">>, <<>>) >>,
           << <<"rootSequenceIndex">>, get(source_row, <<"RSI">>, <<>>) >>,
           << <<"cpSpeRefSigPwr">>, get(source_row, <<"cpSpeRefSigPwr">>, <<>>) >>,
           << <<"sectorFunctionId">>, cell_name >>, << <<"cpId">>, cell_id >>,
           << <<"functionMoId">>, <<"452-04_">> \o enb_id >>,
           << <<"bandIndicator">>,
              table_get(band_indicator_mapping, num(int_or_zero(arfcn_dl)), <<>>) >> >>
        \o (IF fdd THEN << << <<"earfcnDl">>, mapped(arfcn_dl) >>,
                           << <<"earfcnUl">>, mapped(arfcn_ul) >>,
                           << <<"bandWidthDl">>, py_str(get_bandwidth_code(bandwidth_mapping, dl_bw)) >>,
                           << <<"bandWidthUl">>, py_str(get_bandwidth_code(bandwidth_mapping, ul_bw)) >> >>
            ELSE << << <<"earfcn">>, mapped(arfcn_dl) >>,
                    << <<"bandWidth">>, py_str(get_bandwidth_code(bandwidth_mapping, dl_bw)) >> >>)
        \o << << <<"paForDTCH">>, num(IF fdd THEN 4 ELSE 2) >>,
              << <<"cellRSPortNum">>, num(cell_rs_port_num(mimo)) >>,
              << <<"sampleRateCfg">>,
                 sample_rate_cfg(get_bandwidth_code(bandwidth_mapping, dl_bw)) >>,
              << <<"anttoPortMap">>,
                 _get_ant_to_port_map(safe_str(get(source_row, <<"rruPort">>, <<>>)),
                                      cell_type) >>,
              << <<"nRearfcn">>,
                 nRearfcn(data, safe_str(get(source_row, <<"Relation 5G">>, <<>>))) >> >>
        \o fixed_fields(fixed_values, cell4g_already_set)

\* The loop over the rows of Radio 4G: [exc, ws].
RECURSIVE cell4g_rows(_, _, _, _, _, _, _)
cell4g_rows(ws, template_cols, cfg, data, fixed_values, source_rows, row) ==
    IF source_rows = <<>> THEN [exc |-> "none", ws |-> ws]
    ELSE LET done == write_row(ws, template_cols, row,
                               cell4g_fields(cfg, data, fixed_values, Head(source_rows)))
         IN  IF done.exc # "none" THEN done
             ELSE cell4g_rows(done.ws, template_cols, cfg, data, fixed_values,
                              Tail(source_rows), row + 1)

\* SPUProcessor._process_cell4g_sheet(wb): the exception it raises ("none"
\* if none) and the workbook it leaves.
_process_cell4g_sheet(book, cfg, maps_by_sheet, data) ==
    LET radio4g == sheet_of(data, "Radio 4G")
    IN  IF <<"cell4g">> \notin DOMAIN book \/ empty(radio4g)
        THEN [exc |-> "none", book |-> book]
        ELSE LET ws == book[<<"cell4g">>]
                 spu_config == cfg_get(cfg_get(cfg, "SPU"), version[1])
                 fixed_values == fixed_values_of(cfg_get(spu_config, "cell4g_fixed_values"),
                                                 maps_by_sheet, <<"cell4g">>)
                 done == cell4g_rows(ws, _get_template_columns(ws), cfg, data, fixed_values,
                                     radio4g.rows, _find_data_start_row(ws))
             IN  [exc |-> done.exc, book |-> [book EXCEPT ![<<"cell4g">>] = done.ws]]

-----------------------------------------------------------------------------
(* SPUProcessor._process_cell5g_sheet (src/src/processor.py)               *)

\* A field whose try block raised ValueError or TypeError: nothing is
\* written, which is also what writing None does.
skipped == None

\* '0.005 * float(value) if pd.notna(value) else 0', the product written in
\* thousandths; float() of a text that is no number raises ValueError,
\* which the routine catches.
frequency(value) ==
    IF isna(value) THEN num(0)
    ELSE IF is_number(str(value)) THEN <<ToString(5 * int_of(str(value))) \o "e-3">>
    ELSE skipped

\* int(10 * (10 * math.log10(p) + 30)) for p = 1, 2, 3, ...
tx_power_table ==
    << 300, 330, 347, 360, 369, 377, 384, 390, 395, 400,
       404, 407, 411, 414, 417, 420, 423, 425, 427, 430,
       432, 434, 436, 438, 439, 441, 443, 444, 446, 447 >>

\* float(value) of a text "-n" is below zero.
is_negative(text) ==
    LET t == strip(text)
    IN  Len(t) = 1 /\ \E n \in 1..MaxNumber : t[1] = "-" \o ToString(n)

\* configuredMaxTxPower
tx_power(value) ==
    IF isna(value) THEN num(0)
    ELSE IF is_negative(str(value)) THEN num(0)
    ELSE IF is_number(str(value))
    THEN LET power_input == int_of(str(value))
         IN  num(IF power_input > 0 THEN tx_power_table[power_input] ELSE 0)
    ELSE skipped

cell5g_already_set ==
    { <<"meId">>, <<"functionUserLabel">>, <<"gNBId">>, <<"cellLocalId">>, <<"userLabel">>,
      <<"nrPhysicalCellDUId">>, <<"nrPhysicalCellUserLabel">>, <<"pci">>, <<"tac">>,
      <<"duplexMode">>, <<"NRCarrierId">>, <<"frequencyBandListUL">>,
      <<"frequencyBandListDL">>, <<"sectorFunctionId">>, <<"nrbandwidth">>,
      <<"prachRootSequenceValue">>, <<"NRFreqRelation_freqBandIndicator">>,
      <<"functionMoId">>, <<"masterOperatorId">>, <<"frequencyDL">>, <<"frequencyUL">>,
      <<"NRFreqRelation_ssbFrequency">>, <<"dlAntNum">>, <<"ulAntNum">>,
      <<"bpPoolFunctionId">>, <<"configuredMaxTxPower">>, <<"powerPerRERef">> }

\* The fields of one cell5g row, in the order of the code.
cell5g_fields(fixed_values, source_row) ==
    LET ne_name == safe_str(get(source_row, <<"NE_Name">>, <<>>))
        gnb_id == safe_str(get(source_row, <<"gNBId">>, <<>>))
        cell_local_id == safe_str(get(source_row, <<"cellLocalId">>, <<>>))
        nrcell == safe_str(get(source_row, <<"nRCell">>, <<>>))
        cell_type == safe_str(get(source_row, <<"CellType">>, <<>>))
        nr_carrier_id == get(source_row, <<"NRCarrierId">>, <<>>)
        band_list_manual == get(source_row, <<"bandListManual">>, <<>>)
        rru_port == safe_str(get(source_row, <<"rruPort">>, <<>>))
        ant_num == IF rru_port = <<"1-32">> THEN 5 ELSE 6
    IN  << << <<"meId">>, ne_name >>, << <<"functionUserLabel">>, ne_name >>,
           << <<"gNBId">>, gnb_id >>, << <<"cellLocalId">>, cell_local_id >>,
           << <<"userLabel">>, nrcell >>, << <<"nrPhysicalCellDUId">>, nr_carrier_id >>,
           << <<"nrPhysicalCellUserLabel">>, nrcell >>,
           << <<"pci">>, get(source_row, <<"nRPCI">>, <<>>) >>,
           << <<"tac">>, get(source_row, <<"nRTAC">>, <<>>) >>,
           << <<"duplexMode">>, cell_type >>, << <<"NRCarrierId">>, nr_carrier_id >>,
           << <<"frequencyBandListUL">>, band_list_manual >>,
           << <<"frequencyBandListDL">>, band_list_manual >>,
           << <<"sectorFunctionId">>, nrcell >>,
           << <<"nrbandwidth">>, get(source_row, <<"bSChannelBwDL">>, <<>>) >>,
           << <<"prachRootSequenceValue">>, get(source_row, <<"rachRootSequence">>, <<>>) >>,
           << <<"NRFreqRelation_freqBandIndicator">>, band_list_manual >>,
           << <<"functionMoId">>, <<"452-04_">> \o gnb_id >>,
           << <<"masterOperatorId">>, <<"45204-">> \o gnb_id \o <<"-">> \o cell_local_id >>,
           << <<"frequencyDL">>, frequency(get(source_row, <<"arfcnDL">>, num(0))) >>,
           << <<"frequencyUL">>, frequency(get(source_row, <<"arfcnUL">>, num(0))) >>,
           << <<"NRFreqRelation_ssbFrequency">>,
              frequency(get(source_row, <<"ssbFrequency">>, num(0))) >>,
           << <<"dlAntNum">>, num(ant_num) >>, << <<"ulAntNum">>, num(ant_num) >>,
           << <<"configuredMaxTxPower">>,
              tx_power(get(source_row, <<"configuredMaxTxPower">>, num(0))) >>,
           << <<"powerPerRERef">>, num(178) >> >>
        \o fixed_fields(fixed_values, cell5g_already_set)

\* The loop over the rows of Radio 5G.
RECURSIVE cell5g_rows(_, _, _, _, _)
cell5g_rows(ws, template_cols, fixed_values, source_rows, row) ==
    IF source_rows = <<>> THEN ws
    ELSE cell5g_rows(write_fields(ws, template_cols, row,
                                  cell5g_fields(fixed_values, Head(source_rows))),
                     template_cols, fixed_values, Tail(source_rows), row + 1)

\* The workbook after SPUProcessor._process_cell5g_sheet(wb).
_process_cell5g_sheet(book, maps_by_sheet, data) ==
    LET radio5g == sheet_of(data, "Radio 5G")
    IN  IF <<"cell5g">> \notin DOMAIN book \/ empty(radio5g) THEN book
        ELSE LET ws == book[<<"cell5g">>]
             IN  [book EXCEPT ![<<"cell5g">>] =
                     cell5g_rows(ws, _get_template_columns(ws),
                                 fixed_values_of(EmptyNode, maps_by_sheet, <<"cell5g">>),
                                 radio5g.rows, _find_data_start_row(ws))]

-----------------------------------------------------------------------------
(* SPUProcessor._process_ip_sheet (src/src/processor.py)                   *)

\* 'vlan = ip_row.get(column, ""); if pd.notna(vlan): ws.cell(..., value=vlan)'
vid_of(ip_row, column) ==
    LET vlan == get(ip_row, column, <<>>)
    IN  IF notna(vlan) THEN vlan ELSE None

\* The fields of the OAM row of one element.
oam_fields(ip_row) ==
    << << <<"meId">>, get(ip_row, <<"NE_Name">>, <<>>) >>,
       << <<"moId">>, <<"OAM">> >>,
       << <<"ipAddress">>, get(ip_row, <<"OAM_IP">>, <<>>) >>,
       << <<"prefixLength">>, <<"30">> >>,
       << <<"gatewayIp">>, get(ip_row, <<"OAM_Gateway">>, <<>>) >>,
       << <<"vid">>, vid_of(ip_row, <<"OAM_vlan">>) >> >>

\* The fields of the LTE row (prefix "LTE") or the NR row (prefix "NR").
service_fields(ip_row, prefix, radio_type, interface_type) ==
    << << <<"meId">>, get(ip_row, <<"NE_Name">>, <<>>) >>,
       << <<"moId">>, <<prefix>> >>,
       << <<"ipAddress">>, get(ip_row, <<prefix \o "_IP">>, <<>>) >>,
       << <<"prefixLength">>, <<"30">> >>,
       << <<"gatewayIp">>, get(ip_row, <<prefix \o "_Gateway">>, <<>>) >>,
       << <<"vid">>, vid_of(ip_row, <<prefix \o "_vlan">>) >>,
       << <<"serviceMapRadioType">>, <<radio_type>> >>,
       << <<"serviceInterfaceType">>, <<interface_type>> >>,
       << <<"plmn">>, <<"452-04">> >> >>

\* An NR row written for every element, with or without an NR IP.
nr_rows_always(ip_row) == 1

\* 'if pd.notna(ip_row.get("NR_IP"))': how many NR rows the element gets.
nr_rows(ip_row) == IF notna(get(ip_row, <<"NR_IP">>, None)) THEN 1 ELSE 0

\* One iteration of the loop over the IP rows: [ws, row].
ip_element(ws, row, ip_row, template_cols) ==
    LET oam == write_fields(ws, template_cols, row, oam_fields(ip_row))
        lte == write_fields(oam, template_cols, row + 1,
                            service_fields(ip_row, "LTE", "LTE", "4;8;32"))
        nr == write_fields(lte, template_cols, row + 2,
                           service_fields(ip_row, "NR", "5G", "1;2;4;16;32"))
    IN  IF nr_rows(ip_row) = 1 THEN [ws |-> nr, row |-> row + 3]
        ELSE [ws |-> lte, row |-> row + 2]

RECURSIVE ip_elements(_, _, _, _)
ip_elements(ws, row, ip_rows, template_cols) ==
    IF ip_rows = <<>> THEN ws
    ELSE LET st == ip_element(ws, row, Head(ip_rows), template_cols)
         IN  ip_elements(st.ws, st.row, Tail(ip_rows), template_cols)

\* The workbook after SPUProcessor._process_ip_sheet(wb).
_process_ip_sheet(book, data) ==
    LET ip_df == sheet_of(data, "IP")
    IN  IF <<"Ip">> \notin DOMAIN book \/ empty(ip_df) THEN book
        ELSE LET ws == book[<<"Ip">>]
             IN  [book EXCEPT ![<<"Ip">>] =
                     ip_elements(ws, _find_data_start_row(ws), ip_df.rows,
                                 _get_template_columns(ws))]

\* wb = load_workbook(template) followed by self._process_ip_sheet(wb).
ProcessIpSheet(book) ==
    /\ input_data # EmptyDict
    /\ wb' = _process_ip_sheet(book, input_data)
    /\ ret' = [op |-> "_process_ip_sheet", exc |-> "none", book |-> book]
    /\ UNCHANGED <<config, input_data, template_path, mappings, engine, progress, output_folder, gui>>

-----------------------------------------------------------------------------
(* SPUProcessor._process_ru_with_mapping (src/src/processor.py)            *)

\* table.get(key, default) on a mapping of the config, as a config value.
node_get(table, key, default) == IF has_key(table, key) THEN table.items[key] ELSE default

\* The truth value of a config value.
truthy(node) ==
    CASE node.kind = "str" -> node.val # <<>>
      [] node.kind = "num" -> node.val # 0
      [] node.kind = "list" -> node.val # <<>>
      [] node.kind = "dict" -> DOMAIN node.items # {}
      [] OTHER -> FALSE

\* The truth value of a raw cell: an empty text and the number 0 are
\* false, NaN is true.
cell_truthy(value) == value \notin { <<>>, <<"0">>, None }

\* The position of the key among the groups, 0 if it has none.
key_index(rru_info, key) ==
    IF \E i \in DOMAIN rru_info : rru_info[i].key = key
    THEN CHOOSE i \in DOMAIN rru_info : rru_info[i].key = key
    ELSE 0

\* The entry a key gets when it is first seen.
new_rru(key, rru_type) ==
    [key |-> key, rru_type |-> rru_type, techs |-> {}, cells_4g |-> <<>>, cells_5g |-> <<>>,
     rru_ports |-> <<>>, sector_freq_power_info |-> <<>>]

\* A list of cells that takes every occurrence of a name.
append_cell_always(cells, cell_name) ==
    IF cell_name # <<>> THEN Append(cells, cell_name) ELSE cells

\* 'if cell_name and cell_name not in cells: cells.append(cell_name)'
append_cell(cells, cell_name) ==
    IF cell_name # <<>> /\ \A i \in DOMAIN cells : cells[i] # cell_name
    THEN Append(cells, cell_name)
    ELSE cells

\* A list of ports that takes each port code once.
append_port_once(rru_ports, rru_port) ==
    IF rru_port # <<>> /\ \A i \in DOMAIN rru_ports : rru_ports[i] # rru_port
    THEN Append(rru_ports, rru_port)
    ELSE rru_ports

\* 'if rru_port: rru_ports.append((rru_port, tech))'
append_port(rru_ports, rru_port) ==
    IF rru_port # <<>> THEN Append(rru_ports, rru_port) ELSE rru_ports

\* The sectorFreqPower entries of one 4G row: none or one 'band:pwr'.
freq_power_4g(band_indicator_mapping, source_row) ==
    LET arfcn_dl == get(source_row, <<"arfcndl">>, <<>>)
        max_cp_trans_pwr == get(source_row, <<"maxCPTransPwr">>, <<>>)
        band == node_get(band_indicator_mapping, safe_int(arfcn_dl, num(0)), Str(<<>>))
        pwr == safe_int(max_cp_trans_pwr, <<>>)
    IN  IF cell_truthy(arfcn_dl) /\ truthy(band) /\ cell_truthy(pwr)
        THEN << py_str(band) \o <<":">> \o pwr >>
        ELSE <<>>

\* The sectorFreqPower entries of one 5G row: none or one 'bands:pwr'.
freq_power_5g(source_row) ==
    LET band_list_manual == get(source_row, <<"bandListManual">>, <<>>)
        configured_max_tx_pwr == get(source_row, <<"configuredMaxTxPower">>, <<>>)
        pwr_5g == safe_int(configured_max_tx_pwr, <<>>)
    IN  IF cell_truthy(band_list_manual) /\ notna(configured_max_tx_pwr) /\ cell_truthy(pwr_5g)
        THEN << str(band_list_manual) \o <<":">> \o pwr_5g >>
        ELSE <<>>

\* One iteration of the loop over the rows of Radio 4G (tech "4G", cells in
\* CellName) or Radio 5G (tech "5G", cells in nRCell).
rru_row(rru_info, tech, source_row, freq_power) ==
    LET ne_name == safe_str(get(source_row, <<"NE_Name">>, <<>>))
        rru_name == safe_str(get(source_row, <<"RRU">>, <<>>))
        rru_type == safe_str(get(source_row, <<"RRUname">>, <<>>))
        cell_name == safe_str(get(source_row, IF tech = "4G" THEN <<"CellName">>
                                              ELSE <<"nRCell">>, <<>>))
        rru_port == safe_str(get(source_row, <<"rruPort">>, <<>>))
        key == <<ne_name, rru_name>>
        known == key_index(rru_info, key) # 0
        all == IF known THEN rru_info ELSE Append(rru_info, new_rru(key, rru_type))
        i == key_index(all, key)
        info == all[i]
    IN  IF ne_name = <<>> \/ rru_name = <<>> THEN rru_info
        ELSE [all EXCEPT ![i] =
                 [key |-> key,
                  rru_type |-> IF tech = "5G" /\ info.rru_type = <<>> THEN rru_type
                               ELSE info.rru_type,
                  techs |-> info.techs \cup {tech},
                  cells_4g |-> IF tech = "4G" THEN append_cell(info.cells_4g, cell_name)
                               ELSE info.cells_4g,
                  cells_5g |-> IF tech = "5G" THEN append_cell(info.cells_5g, cell_name)
                               ELSE info.cells_5g,
                  rru_ports |-> append_port(info.rru_ports, rru_port),
                  sector_freq_power_info |-> info.sector_freq_power_info \o freq_power]]

RECURSIVE rru_rows_4g(_, _, _)
rru_rows_4g(rru_info, source_rows, band_indicator_mapping) ==
    IF source_rows = <<>> THEN rru_info
    ELSE rru_rows_4g(rru_row(rru_info, "4G", Head(source_rows),
                             freq_power_4g(band_indicator_mapping, Head(source_rows))),
                     Tail(source_rows), band_indicator_mapping)

RECURSIVE rru_rows_5g(_, _)
rru_rows_5g(rru_info, source_rows) ==
    IF source_rows = <<>> THEN rru_info
    ELSE rru_rows_5g(rru_row(rru_info, "5G", Head(source_rows), freq_power_5g(Head(source_rows))),
                     Tail(source_rows))

\* rru_info after both loops: the 4G rows first, then the 5G rows; a sheet
\* without rows or without an RRU column is passed over.
build_rru_info(cfg, data) ==
    LET radio4g == sheet_of(data, "Radio 4G")
        radio5g == sheet_of(data, "Radio 5G")
        band_indicator_mapping == cfg_get(_get_spu_config(cfg), "bandIndicator_mapping")
        after4g == IF ~empty(radio4g) /\ <<"RRU">> \in radio4g.columns
                   THEN rru_rows_4g(<<>>, radio4g.rows, band_indicator_mapping)
                   ELSE <<>>
    IN  IF ~empty(radio5g) /\ <<"RRU">> \in radio5g.columns
        THEN rru_rows_5g(after4g, radio5g.rows)
        ELSE after4g

tech_key(techs) ==
    IF "4G" \in techs /\ "5G" \in techs THEN <<"4G,5G">>
    ELSE IF "5G" \in techs THEN <<"5G">>
    ELSE <<"4G">>

\* The default mapping of a port code.
default_port(rru_port) ==
    CASE rru_port = <<"1234">> -> <<"1-4">>
      [] rru_port = <<"12">> -> <<"1-2">>
      [] rru_port = <<"34">> -> <<"3-4">>
      [] OTHER -> rru_port

\* One entry of RxChannelNo: the port table's value, else the default.
mapped_port(rru_port_mapping, rru_port) ==
    LET mapped == node_get(rru_port_mapping, rru_port, Str(<<>>))
    IN  IF truthy(mapped) THEN py_str(mapped) ELSE default_port(rru_port)

\* A routine that protects no column from the fixed values.
ru_nothing_set == {}

\* The columns the routine computes itself.
ru_already_set ==
    { <<"meId">>, <<"moId">>, <<"name">>, <<"hwWorkScence">>, <<"functionMode">>,
      <<"sectorFunction">>, <<"RxChannelNo">>, <<"TxChannelNo">>, <<"sectorFreqPower">> }

\* The fields of the output row of one group, in the order of the code.
ru_fields(cfg, fixed_values, info) ==
    LET spu_config == _get_spu_config(cfg)
        hw_mapping == cfg_get(spu_config, "hwWorkScence_mapping")
        func_mapping == cfg_get(spu_config, "functionMode_mapping")
        rru_port_mapping == cfg_get(spu_config, "rruPort_mapping")
        key == tech_key(info.techs)
        rx_channel_no ==
            join("&", [i \in DOMAIN info.rru_ports |->
                          mapped_port(rru_port_mapping, info.rru_ports[i])])
    IN  << << <<"meId">>, info.key[1] >>,
           << <<"moId">>, info.key[2] >>,
           << <<"name">>, info.rru_type >>,
           << <<"hwWorkScence">>,
              py_str(node_get(node_get(hw_mapping, info.rru_type, EmptyNode), key, Str(<<>>))) >>,
           << <<"functionMode">>,
              py_str(node_get(node_get(func_mapping, info.rru_type, EmptyNode), key, Str(<<>>))) >>,
           << <<"sectorFunction">>, join("&", info.cells_4g \o info.cells_5g) >>,
           << <<"RxChannelNo">>, rx_channel_no >>,
           << <<"TxChannelNo">>, rx_channel_no >>,
           << <<"sectorFreqPower">>, join("&", info.sector_freq_power_info) >> >>
        \o fixed_fields(fixed_values, ru_already_set)

RECURSIVE ru_rows(_, _, _, _, _, _)
ru_rows(ws, template_cols, row, cfg, fixed_values, rru_info) ==
    IF rru_info = <<>> THEN ws
    ELSE ru_rows(write_fields(ws, template_cols, row, ru_fields(cfg, fixed_values, Head(rru_info))),
                 template_cols, row + 1, cfg, fixed_values, Tail(rru_info))

\* The RU worksheet after SPUProcessor._process_ru_with_mapping.
_process_ru_with_mapping(ws, template_cols, start_row, cfg, maps_by_sheet, data) ==
    ru_rows(ws, template_cols, start_row, cfg,
            fixed_values_of(Null, maps_by_sheet, <<"RU">>), build_rru_info(cfg, data))

\* The workbook after self._process_sheet_with_mapping(wb, "RU", "Radio 4G"):
\* the routine returns at once without an RU sheet in the template, without
\* mapping rules for RU, and without rows in Radio 4G.
_process_ru_sheet(book, cfg, maps_by_sheet, data) ==
    IF \/ <<"RU">> \notin DOMAIN book
       \/ <<"RU">> \notin DOMAIN maps_by_sheet
       \/ empty(sheet_of(data, "Radio 4G"))
    THEN book
    ELSE LET ws == book[<<"RU">>]
         IN  [book EXCEPT ![<<"RU">>] =
                 _process_ru_with_mapping(ws, _get_template_columns(ws),
                                          _find_data_start_row(ws), cfg, maps_by_sheet, data)]

\* wb = load_workbook(template) followed by
\* self._process_sheet_with_mapping(wb, "RU", "Radio 4G").
ProcessRuSheet(book) ==
    /\ input_data # EmptyDict
    /\ config # Null
    /\ wb' = _process_ru_sheet(book, config, mappings, input_data)
    /\ ret' = [op |-> "_process_ru_with_mapping", exc |-> "none", book |-> book]
    /\ UNCHANGED <<config, input_data, template_path, mappings, engine, progress, output_folder, gui>>

-----------------------------------------------------------------------------
(* SPUProcessor._process_site_sheet (src/src/processor.py)                 *)

\* 'prefix = ne_name[:3] if len(ne_name) >= 3 else ne_name'
prefix_of(ne_name) == IF Len(ne_name) >= 3 THEN SubSeq(ne_name, 1, 3) ELSE ne_name

\* 'for col_name, fixed_val in site_fixed_values.items(): if col_name in
\* template_cols: ws.cell(...)': every fixed value is written, after the
\* computed fields of the row.
site_fixed(fixed_values) == fixed_fields(fixed_values, {})

\* The fields of the site row of one element, in the order of the code.
site_fields(province_mapping, fixed_values, ip_row) ==
    LET ne_name == safe_str(get(ip_row, <<"NE_Name">>, <<>>))
        prefix == prefix_of(ne_name)
    IN  << << <<"subNetwork">>, table_get(province_mapping, prefix, prefix) >>,
           << <<"meId">>, ne_name >>,
           << <<"userLabel">>, ne_name >>,
           << <<"ipAddress">>, safe_str(get(ip_row, <<"OAM_IP">>, <<>>)) >> >>
        \o site_fixed(fixed_values)

\* The loop over the IP rows: a row without element name is passed over
\* and takes no output row.
RECURSIVE site_rows(_, _, _, _, _, _)
site_rows(ws, template_cols, province_mapping, fixed_values, ip_rows, row) ==
    IF ip_rows = <<>> THEN ws
    ELSE IF safe_str(get(Head(ip_rows), <<"NE_Name">>, <<>>)) = <<>>
    THEN site_rows(ws, template_cols, province_mapping, fixed_values, Tail(ip_rows), row)
    ELSE site_rows(write_fields(ws, template_cols, row,
                                site_fields(province_mapping, fixed_values, Head(ip_rows))),
                   template_cols, province_mapping, fixed_values, Tail(ip_rows), row + 1)

\* The workbook after SPUProcessor._process_site_sheet(wb).
_process_site_sheet(book, cfg, maps_by_sheet, data) ==
    LET ip_df == sheet_of(data, "IP")
    IN  IF <<"site">> \notin DOMAIN book \/ empty(ip_df) THEN book
        ELSE LET ws == book[<<"site">>]
             IN  [book EXCEPT ![<<"site">>] =
                     site_rows(ws, _get_template_columns(ws), cfg_get(cfg, "province"),
                               fixed_values_of(EmptyNode, maps_by_sheet, <<"site">>),
                               ip_df.rows, _find_data_start_row(ws))]

\* wb = load_workbook(template) followed by self._process_site_sheet(wb).
ProcessSiteSheet(book) ==
    /\ input_data # EmptyDict
    /\ config # Null
    /\ wb' = _process_site_sheet(book, config, mappings, input_data)
    /\ ret' = [op |-> "_process_site_sheet", exc |-> "none", book |-> book]
    /\ UNCHANGED <<config, input_data, template_path, mappings, engine, progress, output_folder, gui>>

-----------------------------------------------------------------------------
(* SPUProcessor._process_cable_sheet (src/src/processor.py)                *)

\* 'parts = ri_baseband.split("&", 1)': the text before the first "&" and
\* the text after it, both stripped; the whole text and "" without "&".
up_ri(ri_baseband) ==
    LET k == find_from(ri_baseband, "&", 1)
    IN  IF k = 0 THEN [device |-> ri_baseband, port |-> <<>>]
        ELSE [device |-> strip(SubSeq(ri_baseband, 1, k - 1)),
              port |-> strip(slice_from(ri_baseband, k))]

\* 'is_aau = rru_name.upper().startswith("AAU")'
is_aau(rru_name) == startswith(upper(rru_name), <<"A", "A", "U">>)

\* 'if not ne_name or not rru_name or not ri_baseband: continue'
cable_row_usable(ne_name, rru_name, ri_baseband) ==
    ne_name # <<>> /\ rru_name # <<>> /\ ri_baseband # <<>>

\* An entry is replaced by every later row of its pair.
cable_entry_last(cable_entries, entry) ==
    IF \E i \in DOMAIN cable_entries : cable_entries[i].key = entry.key
    THEN [i \in DOMAIN cable_entries |->
             IF cable_entries[i].key = entry.key THEN entry ELSE cable_entries[i]]
    ELSE Append(cable_entries, entry)

\* 'if key in cable_entries: continue' and 'cable_entries[key] = {...}':
\* the entries in the order of their first rows.
cable_entry(cable_entries, entry) ==
    IF \E i \in DOMAIN cable_entries : cable_entries[i].key = entry.key
    THEN cable_entries
    ELSE Append(cable_entries, entry)

\* The loop over the rows of one radio sheet.
RECURSIVE cable_rows_of(_, _)
cable_rows_of(cable_entries, source_rows) ==
    IF source_rows = <<>> THEN cable_entries
    ELSE LET row_data == Head(source_rows)
             ne_name == safe_str(get(row_data, <<"NE_Name">>, <<>>))
             rru_name == safe_str(get(row_data, <<"RRU">>, <<>>))
             ri_baseband == safe_str(get(row_data, <<"RiPort Baseband">>, <<>>))
             ri_rru == safe_str(get(row_data, <<"RiPort RRU">>, <<>>))
         IN  cable_rows_of(
                 IF cable_row_usable(ne_name, rru_name, ri_baseband)
                 THEN cable_entry(cable_entries,
                                  [key |-> <<ne_name, rru_name>>,
                                   ne_name |-> ne_name,
                                   up_ri_device |-> up_ri(ri_baseband).device,
                                   up_ri_port |-> up_ri(ri_baseband).port,
                                   down_ri_device |-> rru_name,
                                   down_ri_port |-> ri_rru,
                                   is_aau |-> is_aau(rru_name)])
                 ELSE cable_entries,
                 Tail(source_rows))

\* The rows of a radio sheet the routine reads: none if the sheet is empty
\* or has no RRU column.
cable_source(df) == IF ~empty(df) /\ <<"RRU">> \in df.columns THEN df.rows ELSE <<>>

\* The fields of the output row of one entry, in the order of the code.
cable_fields(entry) ==
    << << <<"meId">>, entry.ne_name >>,
       << <<"upRiDevice">>, entry.up_ri_device >>,
       << <<"upRiPort">>, entry.up_ri_port >>,
       << <<"downRiDevice">>, entry.down_ri_device >>,
       << <<"downRiPort">>, entry.down_ri_port >>,
       << <<"upBitRateOnIrLine">>, IF entry.is_aau THEN <<"25#0">> ELSE <<"11#0">> >>,
       << <<"downBitRateOnIrLine">>, IF entry.is_aau THEN <<"25#0">> ELSE <<"255#0">> >>,
       << <<"upProtocolType">>, num(IF entry.is_aau THEN 7 ELSE 0) >>,
       << <<"downProtocolType">>, num(IF entry.is_aau THEN 7 ELSE 0) >> >>

RECURSIVE cable_rows(_, _, _, _)
cable_rows(ws, template_cols, cable_entries, row) ==
    IF cable_entries = <<>> THEN ws
    ELSE cable_rows(write_fields(ws, template_cols, row, cable_fields(Head(cable_entries))),
                    template_cols, Tail(cable_entries), row + 1)

\* The workbook after SPUProcessor._process_cable_sheet(wb).
_process_cable_sheet(book, data) ==
    IF <<"cable">> \notin DOMAIN book THEN book
    ELSE LET ws == book[<<"cable">>]
             cable_entries ==
                 cable_rows_of(cable_rows_of(<<>>, cable_source(sheet_of(data, "Radio 4G"))),
                               cable_source(sheet_of(data, "Radio 5G")))
         IN  [book EXCEPT ![<<"cable">>] =
                 cable_rows(ws, _get_template_columns(ws), cable_entries,
                            _find_data_start_row(ws))]

\* wb = load_workbook(template) followed by self._process_cable_sheet(wb).
ProcessCableSheet(book) ==
    /\ input_data # EmptyDict
    /\ wb' = _process_cable_sheet(book, input_data)
    /\ ret' = [op |-> "_process_cable_sheet", exc |-> "none", book |-> book]
    /\ UNCHANGED <<config, input_data, template_path, mappings, engine, progress, output_folder, gui>>

-----------------------------------------------------------------------------
(* SPUProcessor.set_template, get_groups, _process_group and process       *)

\* The last index at which the token occurs in s, or 0.
RECURSIVE rfind(_, _)
rfind(s, token) ==
    IF s = <<>> THEN 0
    ELSE IF s[Len(s)] = token THEN Len(s)
    ELSE rfind(SubSeq(s, 1, Len(s) - 1), token)

\* os.path.basename(path) and os.path.splitext(name)[0], on texts whose
\* separators "/" and "." are tokens.
basename(path) == slice_from(path, rfind(path, "/"))
splitext(name) == IF rfind(name, ".") > 1 THEN SubSeq(name, 1, rfind(name, ".") - 1) ELSE name

\* utils.generate_output_filename, the clock reading `timestamp`.
generate_output_filename(template_name, group_name, timestamp) ==
    splitext(template_name) \o <<"_">> \o group_name \o <<"_">> \o timestamp \o <<".xlsx">>

\* SPUProcessor.get_groups: always a list of one label.
get_groups(data) ==
    LET ip_df == sheet_of(data, "IP")
        ne_names == IF <<"NE_Name">> \in ip_df.columns
                    THEN SelectSeq([i \in DOMAIN ip_df.rows |-> ip_df.rows[i][<<"NE_Name">>]],
                                   notna)
                    ELSE <<>>
    IN  IF <<"IP">> \in DOMAIN data /\ ~empty(ip_df) /\ Len(ne_names) >= 2
        THEN << str(ne_names[1]) \o <<"-">> \o str(ne_names[Len(ne_names)]) >>
        ELSE IF <<"IP">> \in DOMAIN data /\ ~empty(ip_df) /\ Len(ne_names) = 1
        THEN << str(ne_names[1]) >>
        ELSE << <<"default">> >>

\* Sheets and cell columns whose routines are not part of this model; each
\* of these routines returns at once when the workbook has no such sheet,
\* and a column missing from row 2 is never written.
LaterSheets ==
    { <<"BBU">>, <<"DryContactCable">>, <<"AisgCtrlPort">> }
LaterColumns == { <<"bpPoolFunctionId">> }

in_model(book) ==
    /\ LaterSheets \cap DOMAIN book = {}
    /\ \A sheet \in DOMAIN book :
           LaterColumns \cap DOMAIN _get_template_columns(book[sheet]) = {}

\* A run that goes on with the workbook of the run before it, where there
\* is one, and opens the template only for the first run.
_process_group_reusing(book, cfg, maps_by_sheet, data) ==
    LET opened == IF wb # EmptyDict THEN wb ELSE book
        site == _process_site_sheet(opened, cfg, maps_by_sheet, data)
        ru == _process_ru_sheet(site, cfg, maps_by_sheet, data)
        cell4g == _process_cell4g_sheet(ru, cfg, maps_by_sheet, data)
    IN  IF cell4g.exc # "none" THEN cell4g
        ELSE [exc |-> "none",
              book |-> _process_sctp_sheet(
                           _process_ip_sheet(
                               _process_cable_sheet(
                                   _process_cell5g_sheet(cell4g.book, maps_by_sheet, data),
                                   data),
                               data),
                           cfg, data)]

\* SPUProcessor._process_group on the clone `book` of the template, up to
\* wb.save: the exception raised ("none" if none) and the workbook.
_process_group(book, cfg, maps_by_sheet, data) ==
    LET site == _process_site_sheet(book, cfg, maps_by_sheet, data)
        ru == _process_ru_sheet(site, cfg, maps_by_sheet, data)
        cell4g == _process_cell4g_sheet(ru, cfg, maps_by_sheet, data)
    IN  IF cell4g.exc # "none" THEN cell4g
        ELSE [exc |-> "none",
              book |-> _process_sctp_sheet(
                           _process_ip_sheet(
                               _process_cable_sheet(
                                   _process_cell5g_sheet(cell4g.book, maps_by_sheet, data),
                                   data),
                               data),
                           cfg, data)]

\* A start that tests the template only.
prerequisite_template_only(data, path) ==
    IF path = <<>> THEN <<"No template selected">> ELSE <<>>

\* The two checks process() starts with: the message it raises, if any.
prerequisite(data, path) ==
    IF data = EmptyDict THEN <<"No input data loaded">>
    ELSE IF path = <<>> THEN <<"No template selected">>
    ELSE <<>>

\* SPUProcessor.set_template(template_path), `files` being the workbooks
\* that load_workbook can open.
set_template(path, files) ==
    /\ template_path' = path
    /\ ret' = [op |-> "set_template",
               exc |-> IF path \in DOMAIN files THEN "none" ELSE "Exception"]
    /\ UNCHANGED <<config, input_data, mappings, engine, wb, progress, output_folder>>

notification(message, pct) == [message |-> message, pct |-> pct]

\* A run that reports completion whether or not its group was saved.
notifications_always_complete(group, exc) ==
    << notification(<<"Starting SPU processing...">>, 0),
       notification(<<"Processing group: ">> \o group, 0),
       notification(<<"Processing complete!">>, 100) >>

\* The calls of progress_callback in a run of the one group: the start,
\* 'int((idx / len(groups)) * 100)' for idx = 0 before the group, and the
\* completion, which a run that raised in the group does not reach.
notifications(group, exc) ==
    << notification(<<"Starting SPU processing...">>, 0),
       notification(<<"Processing group: ">> \o group, 0) >>
    \o (IF exc = "none"
        THEN << notification(<<"Processing complete!">>, 100) >>
        ELSE <<>>)

\* SPUProcessor.process(progress_callback): config.json holds `file`, the
\* clock reads `now`.
process(progress_callback, file, now, files) ==
    LET failed == prerequisite(input_data, template_path)
        reload == config = Null \/ config = EmptyNode
        load_fails == reload /\ file = Unreadable
        starts == failed = <<>> /\ ~load_fails
        cfg == IF reload THEN file ELSE config
        group == get_groups(input_data)[1]
        opens == template_path \in DOMAIN files
        output_path == generate_output_filename(basename(template_path), group, now)
    IN  /\ (starts /\ opens) => in_model(files[template_path])
        /\ \E done \in { IF starts /\ opens
                         THEN _process_group(files[template_path], cfg, mappings, input_data)
                         ELSE [exc |-> "none", book |-> wb] } :
             LET exc == IF ~starts THEN "Exception"
                        ELSE IF ~opens THEN "FileNotFoundError"
                        ELSE done.exc
             IN  /\ config' = IF starts THEN cfg ELSE config
                 /\ progress' =
                        IF starts /\ progress_callback THEN notifications(group, exc)
                        ELSE <<>>
                 /\ wb' = done.book
                 /\ output_folder' =
                        IF exc = "none" THEN (output_path :> done.book) @@ output_folder
                        ELSE output_folder
                 /\ ret' = [op |-> "process", exc |-> exc, message |-> failed,
                            opened |-> IF starts /\ opens THEN 1 ELSE 0,
                            output_files |-> IF exc = "none" THEN <<output_path>> ELSE <<>>]
        /\ UNCHANGED <<input_data, template_path, mappings, engine>>

-----------------------------------------------------------------------------
(* Runs of the processor: the inputs.                                      *)

\* Radio 4G: the first cell has the bandwidth `bw` and the relation `rel`,
\* the second is well-formed.
Radio4G_Run(bw, rel) ==
    [ columns |-> { <<"NE_Name">>, <<"CellType">>, <<"dlChannelBandwidth">>,
                    <<"Relation 5G">> },
      rows |-> << (<<"NE_Name">> :> <<"NE1">>) @@ (<<"CellType">> :> <<"F", "D", "D">>)
                  @@ (<<"dlChannelBandwidth">> :> bw) @@ (<<"Relation 5G">> :> rel),
                  (<<"NE_Name">> :> <<"NE1">>) @@ (<<"CellType">> :> <<"T", "D", "D">>)
                  @@ (<<"dlChannelBandwidth">> :> <<"10">>) @@ (<<"Relation 5G">> :> NaN) >> ]

\* Radio 5G: with or without the nRCell column; the first cell has `value`
\* in its arfcnDL and configuredMaxTxPower cells.
Radio5G_Run(columns, value) ==
    [ columns |-> columns,
      rows |-> << [c \in columns |->
                      CASE c = <<"NE_Name">> -> <<"NE1">>
                        [] c = <<"nRCell">> -> <<"N1">>
                        [] c = <<"ssbFrequency">> -> <<"7">>
                        [] OTHER -> value],
                  [c \in columns |->
                      CASE c = <<"NE_Name">> -> <<"NE1">>
                        [] c = <<"nRCell">> -> <<"N2">>
                        [] c = <<"ssbFrequency">> -> <<"8">>
                        [] OTHER -> <<"2">>] >> ]

Radio5G_Columns ==
    { <<"NE_Name">>, <<"nRCell">>, <<"ssbFrequency">>, <<"arfcnDL">>,
      <<"configuredMaxTxPower">> }

\* The Mapping sheet of the runs: one fixed value for cell4g.
Mapping_Run ==
    [ columns |-> MappingColumns,
      rows |-> << MappingRow(version, <<"cell4g">>, <<"pb">>, NaN, NaN, <<"1">>, NaN) >> ]

Malformed == <<"a", "b", "c">>

RunDatasets ==
    { (<<"Mapping">> :> mapping)
      @@ (<<"Radio 4G">> :> Radio4G_Run(bw, rel))
      @@ (<<"Radio 5G">> :> Radio5G_Run(columns, value))
      @@ (<<"IP">> :> [columns |-> IPColumns,
                       rows |-> << IPRow(1, [LTE_IP |-> <<"10.0.0.4">>, NR_IP |-> <<"10.0.0.5">>,
                                             MME |-> <<"M1">>, AMF |-> NaN]) >>]) :
      mapping \in { Mapping_Run,
                    [columns |-> MappingColumns \ { <<"Version">> },
                     rows |-> << without_version(Mapping_Run.rows[1]) >>] },
      bw \in { <<"20">>, Malformed },
      rel \in { NaN, <<"N1">> },
      columns \in { Radio5G_Columns, Radio5G_Columns \ { <<"nRCell">> } },
      value \in { <<"2">>, Malformed } }

\* config.json: the bandwidth table gives the code of 20 MHz as a number
\* or as a string; or there is no SPU section at all.
RunConfig(code) ==
    Dict(   (<<"SPU">> :> Dict(version :> Dict(
                (<<"bandwidth_mapping">> :> Dict(<<"20.0">> :> code))
             @@ (<<"cell4g_fixed_values">> :> Dict(   (<<"pb">> :> Num(0))
                                                   @@ (<<"paForDTCH">> :> Num(9)))))))
         @@ SctpConfig.items )

RunConfigs == { RunConfig(Num(5)), RunConfig(Str(<<"5">>)), SctpConfig, Unreadable }

\* A template with the sheets cell4g, cell5g and Sctp.
headers(names) == [rc \in {2} \X (1..Len(names)) |-> names[rc[2]]]

RunBook ==
       (<<"cell4g">> :> headers(<< <<"meId">>, <<"bandWidthDl">>, <<"bandWidth">>,
                                   <<"sampleRateCfg">>, <<"paForDTCH">>, <<"nRearfcn">>,
                                   <<"pb">> >>))
    @@ (<<"cell5g">> :> headers(<< <<"meId">>, <<"frequencyDL">>,
                                   <<"configuredMaxTxPower">>, <<"powerPerRERef">> >>))
    @@ SctpBook

TemplateName == <<"Template", "/", "SPU", ".", "xlsx">>
TemplateFiles == TemplateName :> RunBook
TemplatePaths == { TemplateName, <<"Template", "/", "gone", ".", "xlsx">> }

Clock == { <<"20240101_0900">> }

SetTemplate ==
    /\ \E path \in TemplatePaths : set_template(path, TemplateFiles)
    /\ UNCHANGED gui
\* config.json is read only by a processor that holds no config.
Process ==
    /\ UNCHANGED gui
    /\ \E progress_callback \in BOOLEAN, now \in Clock,
       file \in IF config \in {Null, EmptyNode} THEN RunConfigs ELSE {config} :
        process(progress_callback, file, now, TemplateFiles)

RunNext == FirstLoad(RunDatasets, RunConfigs) \/ SetTemplate \/ Process

SpecRun == Constructed /\ [][RunNext]_vars

-----------------------------------------------------------------------------
(* Claims about runs.                                                      *)

\* C6: process() without loaded input or without a selected template raises
\* before anything is done: no clone of the template is opened, no cell is
\* written, no file is saved and the callback is not notified.
C6_MissingPrerequisite ==
    [][ (ret'.op = "process" /\ (input_data = EmptyDict \/ template_path = <<>>)) =>
            /\ ret'.exc = "Exception"
            /\ ret'.opened = 0
            /\ ret'.output_files = <<>>
            /\ wb' = wb
            /\ output_folder' = output_folder
            /\ progress' = <<>> ]_vars

\* A template is selected, no input is loaded, and process() has raised.
C6_Witness ==
    /\ ret.op = "process"
    /\ ret.exc = "Exception"
    /\ ret.message = <<"No input data loaded">>
    /\ template_path = TemplateName
    /\ input_data = EmptyDict
    /\ wb = EmptyDict /\ output_folder = EmptyDict /\ progress = <<>>

\* C7: no lookup of an absent config key, source column or table entry
\* reaches the caller as an exception, neither from loading nor from a run.
C7_MissingLookupRecovered ==
    ret.op \in {"set_input_data", "process"} => ret.exc # "KeyError"

\* The rows written to a sheet of the workbook a run has saved.
Saved == output_folder[ret.output_files[1]]
SavedCell(sheet, names, i, name) ==
    LET k == CHOOSE k \in DOMAIN names : names[k] = <<name>>
    IN  cell(Saved[<<sheet>>], _find_data_start_row(RunBook[<<sheet>>]) + i - 1, k)

Cell4gHeaders == [k \in 1..7 |-> RunBook[<<"cell4g">>][<<2, k>>]]
Cell5gHeaders == [k \in 1..4 |-> RunBook[<<"cell5g">>][<<2, k>>]]

\* C8: a malformed number in a row, or a bandwidth code of the config that
\* is no number, costs that one field only: the run completes, and every row
\* of Radio 4G and of Radio 5G has its other fields in the saved workbook.
\* Runs stopped by a missing prerequisite, an unreadable file or an absent
\* column are left aside.
C8_RowFailuresLocal ==
    (ret.op = "process" /\ ret.exc \notin {"Exception", "FileNotFoundError", "KeyError"}) =>
        /\ ret.exc = "none"
        /\ ret.output_files # <<>>
        /\ \A i \in DOMAIN sheet_of(input_data, "Radio 4G").rows :
               LET source_row == sheet_of(input_data, "Radio 4G").rows[i]
               IN  /\ SavedCell("cell4g", Cell4gHeaders, i, "meId") = source_row[<<"NE_Name">>]
                   /\ SavedCell("cell4g", Cell4gHeaders, i, "paForDTCH") \in {num(2), num(4)}
        /\ \A i \in DOMAIN sheet_of(input_data, "Radio 5G").rows :
               LET source_row == sheet_of(input_data, "Radio 5G").rows[i]
               IN  /\ SavedCell("cell5g", Cell5gHeaders, i, "meId") = source_row[<<"NE_Name">>]
                   /\ SavedCell("cell5g", Cell5gHeaders, i, "powerPerRERef") = num(178)
                   /\ source_row[<<"arfcnDL">>] = Malformed =>
                          SavedCell("cell5g", Cell5gHeaders, i, "frequencyDL") = None

-----------------------------------------------------------------------------
(* Claims about the MME rows of the SCTP routine.                          *)

\* The rows of element e on the S1 port, in sheet order.
MmeRowsOf(e) == { r \in SctpRowsOf(e) : SctpCell(r, "localPort") = num(36412) }

\* The names of the MME cell of element e, in the order of the cell.
MmeNamesOf(e) ==
    IF Blank(Elements[e][<<"MME">>]) THEN <<>> ELSE split_ws(Elements[e][<<"MME">>])

\* The configured addresses of a name without 0.0.0.0 and empty entries;
\* none for a name the config does not hold.
RemainingAddresses(name) ==
    LET pool == cfg_get(config, "mme")
    IN  IF has_key(pool, name)
        THEN SelectSeq(pool.items[name].val,
                       LAMBDA ip : ip \notin { <<>>, <<"0.0.0.0">> })
        ELSE <<>>

\* The names of element e that are to give a row, in order.
EmittingNames(e) == SelectSeq(MmeNamesOf(e), LAMBDA name : RemainingAddresses(name) # <<>>)

\* The number of semicolon-separated entries of a list cell.
EntryCount(text) == 1 + Cardinality({ i \in DOMAIN text : text[i] = ";" })

\* C11: every configured MME name of an element with an address left gives
\* exactly one row, whose remoteIp is the name's configured addresses in
\* config order without 0.0.0.0 and empty entries, joined by ';', and whose
\* localIp has as many ';'-separated entries as remoteIp; a name without an
\* address left, or unknown to the config, gives no row.
C11_MmeRows ==
    ret.op = "_process_sctp_sheet" =>
        \A e \in DOMAIN Elements :
            LET rows == MmeRowsOf(e)
                names == EmittingNames(e)
            IN  /\ Cardinality(rows) = Len(names)
                /\ \A r \in rows :
                       LET k == 1 + Cardinality({ q \in rows : q < r })
                       IN  /\ SctpCell(r, "remoteIp") = join(";", RemainingAddresses(names[k]))
                           /\ EntryCount(SctpCell(r, "localIp")) =
                                  EntryCount(SctpCell(r, "remoteIp"))
                           /\ EntryCount(SctpCell(r, "remoteIp")) =
                                  Len(RemainingAddresses(names[k]))

\* Element 1 names M0 (only placeholders), M1 (three addresses, one of them
\* 0.0.0.0) and the unknown M9: one row, with two addresses on each side.
C11_Witness ==
    /\ ret.op = "_process_sctp_sheet"
    /\ config = SctpConfig
    /\ Elements[1][<<"MME">>] = <<"M0", " ", "M1", " ", "M9">>
    /\ Elements[1][<<"LTE_IP">>] = <<"10.0.0.4">>
    /\ MmeRowsOf(1) = { SctpStart }
    /\ SctpCell(SctpStart, "remoteIp") = <<"1.1.1.1", ";", "1.1.1.2">>
    /\ SctpCell(SctpStart, "localIp") = <<"10.0.0.4", ";", "10.0.0.4">>

-----------------------------------------------------------------------------
(* The IP routine: the inputs.                                             *)

IpSheetColumns ==
    { <<"NE_Name">>, <<"OAM_IP">>, <<"OAM_Gateway">>, <<"OAM_vlan">>,
      <<"LTE_IP">>, <<"LTE_Gateway">>, <<"LTE_vlan">>,
      <<"NR_IP">>, <<"NR_Gateway">>, <<"NR_vlan">> }

\* What one element may hold in its LTE_IP, NR_IP and vlan cells.
IpElementCells ==
    [ LTE_IP   : { NaN, <<"10.0.0.4">> },
      NR_IP    : { NaN, <<"10.0.0.5">> },
      OAM_vlan : { NaN, <<"100">> },
      NR_vlan  : { NaN, <<"300">> } ]

\* The i-th row of the IP sheet; element names are distinct.
IpSheetRow(i, cells) ==
    [c \in IpSheetColumns |->
        CASE c = <<"NE_Name">> -> <<"NE" \o ToString(i)>>
          [] c = <<"OAM_IP">> -> <<"10.0.0.3">>
          [] c = <<"OAM_Gateway">> -> <<"10.0.0.1">>
          [] c = <<"LTE_Gateway">> -> <<"10.0.1.1">>
          [] c = <<"NR_Gateway">> -> <<"10.0.2.1">>
          [] c = <<"LTE_vlan">> -> <<"200">>
          [] c = <<"LTE_IP">> -> cells.LTE_IP
          [] c = <<"NR_IP">> -> cells.NR_IP
          [] c = <<"OAM_vlan">> -> cells.OAM_vlan
          [] OTHER -> cells.NR_vlan]

\* IP sheets of one to MaxRows elements, with and without the NR_IP column.
IpDatasets ==
    { (<<"IP">> :> [columns |-> IpSheetColumns \ dropped,
                    rows |-> [i \in DOMAIN els |->
                                 [c \in IpSheetColumns \ dropped |-> IpSheetRow(i, els[i])[c]]]]) :
      els \in SeqsUpTo(IpElementCells, MaxRows), dropped \in { {}, { <<"NR_IP">> } } }

\* A template whose Ip sheet has the nine headers in row 2.
IpBook ==
    <<"Ip">> :> headers(<< <<"meId">>, <<"moId">>, <<"ipAddress">>, <<"prefixLength">>,
                           <<"gatewayIp">>, <<"vid">>, <<"serviceMapRadioType">>,
                           <<"serviceInterfaceType">>, <<"plmn">> >>)

IpNext ==
    \/ FirstLoad(IpDatasets, {EmptyNode})
    \/ ProcessIpSheet(IpBook)

SpecIp == Constructed /\ [][IpNext]_vars

-----------------------------------------------------------------------------
(* Claims about the IP routine.                                            *)

IpSheet == wb[<<"Ip">>]
IpCols == _get_template_columns(IpBook[<<"Ip">>])
IpStart == _find_data_start_row(IpBook[<<"Ip">>])
IpCell(r, name) == cell(IpSheet, r, IpCols[<<name>>])

\* The rows of the sheet the routine wrote: those that carry a moId.
IpRows == { r \in IpStart..(IpStart + 3 * Len(Elements) + 1) : IpCell(r, "moId") # None }

\* The rows of the sheet that carry the name of element e.
IpRowsOf(e) == { r \in IpRows : IpCell(r, "meId") = Elements[e][<<"NE_Name">>] }

\* Whether the row of element e holds an NR IP.
NrPresent(e) == <<"NR_IP">> \in DOMAIN Elements[e] /\ ~Blank(Elements[e][<<"NR_IP">>])

\* C12: every element gets exactly 2 rows, OAM then LTE, when it has no NR
\* IP and exactly 3, OAM, LTE, NR in that order, when it has one; the rows
\* of the sheet number 2 * elements + elements with an NR IP.
C12_IpRowCount ==
    ret.op = "_process_ip_sheet" =>
        /\ Cardinality(IpRows) =
               2 * Len(Elements) + Cardinality({ e \in DOMAIN Elements : NrPresent(e) })
        /\ \A e \in DOMAIN Elements :
               LET rows == IpRowsOf(e)
               IN  \E r \in rows :
                     /\ rows = IF NrPresent(e) THEN { r, r + 1, r + 2 } ELSE { r, r + 1 }
                     /\ IpCell(r, "moId") = <<"OAM">>
                     /\ IpCell(r + 1, "moId") = <<"LTE">>
                     /\ NrPresent(e) => IpCell(r + 2, "moId") = <<"NR">>

\* Element 1 without an NR IP gets the first two rows, element 2 with one
\* the next three, and nothing follows.
C12_Witness ==
    /\ ret.op = "_process_ip_sheet"
    /\ Len(Elements) = 2
    /\ <<"NR_IP">> \in DOMAIN Elements[1]
    /\ Elements[1][<<"NR_IP">>] = NaN /\ Elements[2][<<"NR_IP">>] = <<"10.0.0.5">>
    /\ IpCell(IpStart + 1, "moId") = <<"LTE">> /\ IpCell(IpStart + 1, "meId") = <<"NE1">>
    /\ IpCell(IpStart + 2, "moId") = <<"OAM">> /\ IpCell(IpStart + 2, "meId") = <<"NE2">>
    /\ IpCell(IpStart + 4, "moId") = <<"NR">> /\ IpCell(IpStart + 4, "ipAddress") = <<"10.0.0.5">>
    /\ IpCell(IpStart + 5, "moId") = None

-----------------------------------------------------------------------------
(* The RU routine: the inputs.                                             *)

Radio4G_RuColumns ==
    { <<"NE_Name">>, <<"RRU">>, <<"RRUname">>, <<"CellName">>, <<"rruPort">>,
      <<"arfcndl">>, <<"maxCPTransPwr">> }

Radio5G_RuColumns ==
    { <<"NE_Name">>, <<"RRU">>, <<"RRUname">>, <<"nRCell">>, <<"rruPort">>,
      <<"bandListManual">>, <<"configuredMaxTxPower">> }

\* A row of Radio 4G (cells in CellName) or Radio 5G (cells in nRCell).
RadioRow(columns, ne_name, rru, rru_type, cell_name, rru_port, band, pwr) ==
    [c \in columns |->
        CASE c = <<"NE_Name">> -> ne_name
          [] c = <<"RRU">> -> rru
          [] c = <<"RRUname">> -> rru_type
          [] c \in { <<"CellName">>, <<"nRCell">> } -> cell_name
          [] c = <<"rruPort">> -> rru_port
          [] c \in { <<"arfcndl">>, <<"bandListManual">> } -> band
          [] OTHER -> pwr]

\* 4G rows: two cells of unit R1 on port 1234, a cell of unit R2, a row
\* without a unit, and a row of another element without cell and type.
Radio4G_RuRows ==
    { RadioRow(Radio4G_RuColumns, <<"NE1">>, <<"R1">>, <<"T1">>, <<"c1">>, <<"1234">>, <<"17">>, <<"20">>),
      RadioRow(Radio4G_RuColumns, <<"NE1">>, <<"R1">>, <<"T1">>, <<"c2">>, <<"1234">>, <<"17">>, <<"20">>),
      RadioRow(Radio4G_RuColumns, <<"NE1">>, <<"R2">>, <<"T1">>, <<"c1">>, <<"12">>, NaN, NaN),
      RadioRow(Radio4G_RuColumns, <<"NE1">>, NaN, <<"T1">>, <<"c3">>, <<"34">>, <<"17">>, <<"20">>),
      RadioRow(Radio4G_RuColumns, <<"NE2">>, <<"R1">>, NaN, NaN, <<"77">>, <<"17">>, <<"0">>) }

\* 5G rows: a cell of the 4G unit R1 that bears the name of a 4G cell, two
\* rows of the 5G-only unit R3, and a row of another element.
Radio5G_RuRows ==
    { RadioRow(Radio5G_RuColumns, <<"NE1">>, <<"R1">>, <<"T1">>, <<"c1">>, <<"1-64">>, <<"n78">>, <<"20">>),
      RadioRow(Radio5G_RuColumns, <<"NE1">>, <<"R3">>, <<"T2">>, <<"n1">>, <<"1-64">>, <<"n78">>, <<"20">>),
      RadioRow(Radio5G_RuColumns, <<"NE1">>, <<"R3">>, <<"T2">>, <<"n2">>, NaN, <<"n78">>, NaN),
      RadioRow(Radio5G_RuColumns, <<"NE2">>, <<"R1">>, <<"T2">>, <<"n1">>, <<"12">>, NaN, <<"20">>) }

\* A radio sheet of the given rows; pandas reads a sheet without rows as an
\* empty frame.
RadioSheet(columns, rows) == [columns |-> columns, rows |-> rows]

\* The Mapping sheet: fixed values for the RU columns sharedSwitch, name and
\* sectorFunction, or no rule for RU at all.
Mapping_Ru ==
    [ columns |-> MappingColumns,
      rows |-> << MappingRow(version, <<"RU">>, <<"sharedSwitch">>, NaN, NaN, <<"0">>, NaN),
                  MappingRow(version, <<"RU">>, <<"name">>, NaN, NaN, <<"X">>, NaN),
                  MappingRow(version, <<"RU">>, <<"sectorFunction">>, NaN, NaN, <<"X">>, NaN) >> ]

RuDatasets ==
    { (<<"Mapping">> :> mapping)
      @@ (<<"Radio 4G">> :> RadioSheet(Radio4G_RuColumns, rows4g))
      @@ (<<"Radio 5G">> :> RadioSheet(Radio5G_RuColumns, rows5g)) :
      mapping \in { Mapping_Ru, Mapping_Run },
      rows4g \in SeqsUpTo(Radio4G_RuRows, MaxRows) \cup { <<>> },
      rows5g \in SeqsUpTo(Radio5G_RuRows, MaxRows) \cup { <<>> } }

\* config.json: the tables of the RU routine.
RuConfig ==
    Dict(<<"SPU">> :> Dict(version :> Dict(
            (<<"hwWorkScence_mapping">> :>
                 Dict(<<"T1">> :> Dict(   (<<"4G">> :> Str(<<"hw4">>))
                                       @@ (<<"4G,5G">> :> Str(<<"hw45">>)))))
         @@ (<<"functionMode_mapping">> :>
                 Dict(<<"T1">> :> Dict(<<"4G">> :> Str(<<"fm4">>))))
         @@ (<<"bandIndicator_mapping">> :> Dict(<<"17">> :> Str(<<"3">>)))
         @@ (<<"rruPort_mapping">> :> Dict(<<"77">> :> Str(<<"7-7">>))))))

\* A template whose RU sheet has ten headers in row 2.
RuBook ==
    <<"RU">> :> headers(<< <<"meId">>, <<"moId">>, <<"name">>, <<"hwWorkScence">>,
                           <<"functionMode">>, <<"sectorFunction">>, <<"RxChannelNo">>,
                           <<"TxChannelNo">>, <<"sectorFreqPower">>, <<"sharedSwitch">> >>)

RuNext ==
    \/ FirstLoad(RuDatasets, {RuConfig})
    \/ ProcessRuSheet(RuBook)

SpecRu == Constructed /\ [][RuNext]_vars

-----------------------------------------------------------------------------
(* Claims about the RU routine.                                            *)

RuSheet == wb[<<"RU">>]
RuCols == _get_template_columns(RuBook[<<"RU">>])
RuStart == _find_data_start_row(RuBook[<<"RU">>])
RuCell(r, name) == cell(RuSheet, r, RuCols[<<name>>])

\* The rows of the sheet the routine wrote: those that carry a meId.
RuRows == { r \in RuStart..(RuStart + 2 * MaxRows + 2) : RuCell(r, "meId") # None }

\* The rows of both radio sheets, 4G first.
Rows4G == sheet_of(input_data, "Radio 4G").rows
Rows5G == sheet_of(input_data, "Radio 5G").rows
RadioRows == Rows4G \o Rows5G

\* The (element, radio-unit id) of a radio row, and whether both are given.
PairOf(row) == << strip(str(row[<<"NE_Name">>])), strip(str(row[<<"RRU">>])) >>
PairGiven(row) == ~Blank(row[<<"NE_Name">>]) /\ ~Blank(row[<<"RRU">>])

\* The distinct pairs of the dataset.
RuPairs == { PairOf(RadioRows[i]) : i \in { j \in DOMAIN RadioRows : PairGiven(RadioRows[j]) } }

\* C13 (as stated): the RU sheet gets exactly one row per distinct
\* (element, radio-unit id) with both parts non-empty, whichever radio sheet
\* the pair appears in, also when Radio 4G has no rows and also when no
\* mapping rule is registered for the RU sheet.
C13_OneRowPerUnit ==
    ret.op = "_process_ru_with_mapping" =>
        /\ Cardinality(RuRows) = Cardinality(RuPairs)
        /\ RuPairs = { << RuCell(r, "meId"), RuCell(r, "moId") >> : r \in RuRows }

\* The columns C14 names as computed by the routine.
ComputedRuColumns ==
    { "meId", "moId", "name", "hwWorkScence", "functionMode", "sectorFunction",
      "RxChannelNo", "TxChannelNo", "sectorFreqPower" }

\* The RU rules of the Mapping sheet, and those that target no computed
\* column.
RuRules == get(mappings, <<"RU">>, <<>>)
OtherRuRules ==
    SelectSeq(RuRules, LAMBDA rule : \A c \in ComputedRuColumns : rule.column # <<c>>)

\* The RU sheet the same run gives when the rules that target a computed
\* column are taken out of the Mapping sheet.
RuSheetWithout ==
    _process_ru_sheet(RuBook, config, (<<"RU">> :> OtherRuRules) @@ mappings,
                      input_data)[<<"RU">>]

\* C14: fixed-value rules fill only columns the RU routine did not compute:
\* in every RU row the nine computed columns hold what they hold without
\* any fixed-value rule for them, and the fixed value of another column
\* (sharedSwitch) is written.
C14_FixedKeepsComputed ==
    (ret.op = "_process_ru_with_mapping" /\ <<"RU">> \in DOMAIN mappings) =>
        LET without == RuSheetWithout
        IN  \A r \in RuRows :
            /\ \A c \in ComputedRuColumns :
                   RuCell(r, c) = cell(without, r, RuCols[<<c>>])
            /\ RuCell(r, "name") # <<"X">>
            /\ RuCell(r, "sectorFunction") # <<"X">>
            /\ RuCell(r, "sharedSwitch") = <<"0">>

\* Rules give the fixed value X to name and sectorFunction; the row of unit
\* R1 keeps its type and its two cells.
C14_Witness ==
    /\ ret.op = "_process_ru_with_mapping"
    /\ \E i \in DOMAIN RuRules :
           RuRules[i].column = <<"name">> /\ RuRules[i].fixed_value = <<"X">>
    /\ \E i \in DOMAIN RuRules :
           RuRules[i].column = <<"sectorFunction">> /\ RuRules[i].fixed_value = <<"X">>
    /\ RuCell(RuStart, "moId") = <<"R1">>
    /\ RuCell(RuStart, "name") = <<"T1">>
    /\ RuCell(RuStart, "sectorFunction") = <<"c1", "&", "c2">>
    /\ RuCell(RuStart, "sharedSwitch") = <<"0">>

\* The routine writes RU rows: there are RU rules and Radio 4G has rows.
RuRuns == <<"RU">> \in DOMAIN mappings /\ Rows4G # <<>>

\* A list without its repeats, the first occurrence of each member kept.
RECURSIVE Distinct(_)
Distinct(seq) ==
    IF seq = <<>> THEN <<>>
    ELSE LET front == Distinct(SubSeq(seq, 1, Len(seq) - 1))
             last == seq[Len(seq)]
         IN  IF \E i \in DOMAIN front : front[i] = last THEN front ELSE Append(front, last)

\* The pairs of the dataset in the order of first appearance, the 4G rows
\* before the 5G rows.
PairsInOrder ==
    LET given == SelectSeq(RadioRows, PairGiven)
    IN  Distinct([i \in DOMAIN given |-> PairOf(given[i])])

\* The non-empty cell names of the rows of a pair, in the order of the rows:
\* CellName in a 4G sheet, nRCell in a 5G sheet.
CellNames(rows, column, pair) ==
    LET mine == SelectSeq(rows, LAMBDA row : PairGiven(row) /\ PairOf(row) = pair
                                             /\ ~Blank(row[column]))
    IN  [i \in DOMAIN mine |-> strip(str(mine[i][column]))]

\* Groups in the order of first appearance.
GroupsInOrder ==
    LET pairs == PairsInOrder
    IN  /\ RuRows = { RuStart + k - 1 : k \in DOMAIN pairs }
        /\ \A k \in DOMAIN pairs :
               << RuCell(RuStart + k - 1, "meId"), RuCell(RuStart + k - 1, "moId") >>
                   = pairs[k]

\* A second processing of the same dataset gives the same sheet.
SameAgain ==
    (ret.op = "_process_ru_with_mapping" /\ ret'.op = "_process_ru_with_mapping") => wb' = wb

\* C15 (as stated): RU grouping is deterministic and order-preserving;
\* processing the same dataset twice yields the same rows, groups come in the
\* order of first appearance with 4G rows before 5G rows, and sectorFunction
\* lists each distinct cell name of the group once, in first-seen order with
\* 4G cells before 5G cells, joined by '&'.
C15_GroupingStable ==
    /\ [](  (ret.op = "_process_ru_with_mapping" /\ RuRuns) =>
                /\ GroupsInOrder
                /\ LET pairs == PairsInOrder
                   IN  \A k \in DOMAIN pairs :
                       RuCell(RuStart + k - 1, "sectorFunction") =
                           join("&", Distinct(   CellNames(Rows4G, <<"CellName">>, pairs[k])
                                              \o CellNames(Rows5G, <<"nRCell">>, pairs[k]))) )
    /\ [][SameAgain]_vars

\* C15 (amended): as C15, but a name is listed once per technology: the
\* distinct 4G cell names in first-seen order, then the distinct 5G cell
\* names in first-seen order, so a name borne by a 4G cell and by a 5G cell
\* of the same unit comes twice.
C15_GroupingStablePerTechnology ==
    /\ [](  (ret.op = "_process_ru_with_mapping" /\ RuRuns) =>
                /\ GroupsInOrder
                /\ LET pairs == PairsInOrder
                   IN  \A k \in DOMAIN pairs :
                       RuCell(RuStart + k - 1, "sectorFunction") =
                           join("&",    Distinct(CellNames(Rows4G, <<"CellName">>, pairs[k]))
                                     \o Distinct(CellNames(Rows5G, <<"nRCell">>, pairs[k]))) )
    /\ [][SameAgain]_vars

\* Unit R1 has the 4G cell c1 in two rows and a 5G cell of the same name;
\* the 5G-only unit R3 comes first in Radio 5G but second in the RU sheet.
C15_Witness ==
    /\ ret.op = "_process_ru_with_mapping"
    /\ Len(Rows4G) = 2 /\ Len(Rows5G) = 2
    /\ PairOf(Rows4G[1]) = << <<"NE1">>, <<"R1">> >> /\ Rows4G[2] = Rows4G[1]
    /\ PairOf(Rows5G[1]) = << <<"NE1">>, <<"R3">> >>
    /\ PairOf(Rows5G[2]) = << <<"NE1">>, <<"R1">> >>
    /\ RuCell(RuStart, "moId") = <<"R1">>
    /\ RuCell(RuStart, "sectorFunction") = <<"c1", "&", "c1">>
    /\ RuCell(RuStart + 1, "moId") = <<"R3">>
    /\ RuCell(RuStart + 2, "meId") = None

\* The entry of a port code: the value of the port table if it lists the
\* code, else the default mapping.
ExpectedPort(code) ==
    LET table == cfg_get(_get_spu_config(config), "rruPort_mapping")
    IN  IF has_key(table, code) /\ table.items[code].val # <<>> THEN table.items[code].val
        ELSE IF code = <<"1234">> THEN <<"1-4">>
        ELSE IF code = <<"12">> THEN <<"1-2">>
        ELSE IF code = <<"34">> THEN <<"3-4">>
        ELSE code

\* The non-empty port codes of the rows of a pair, one per row, in source
\* order.
PortCodes(pair) ==
    LET mine == SelectSeq(RadioRows, LAMBDA row : PairGiven(row) /\ PairOf(row) = pair
                                                  /\ ~Blank(row[<<"rruPort">>]))
    IN  [i \in DOMAIN mine |-> strip(str(mine[i][<<"rruPort">>]))]

\* C16: RxChannelNo of an RU group has one '&'-separated entry per source
\* row of the group with a non-empty port code, repeats kept, in source
\* order, each entry the port table's value or the default mapping
\* (1234 -> 1-4, 12 -> 1-2, 34 -> 3-4, anything else unchanged); TxChannelNo
\* equals RxChannelNo.
C16_ChannelNumbers ==
    (ret.op = "_process_ru_with_mapping" /\ RuRuns) =>
        LET pairs == PairsInOrder
        IN  \A k \in DOMAIN pairs :
            LET codes == PortCodes(pairs[k])
            IN  /\ RuCell(RuStart + k - 1, "RxChannelNo") =
                       join("&", [i \in DOMAIN codes |-> ExpectedPort(codes[i])])
                /\ RuCell(RuStart + k - 1, "TxChannelNo") =
                       RuCell(RuStart + k - 1, "RxChannelNo")

\* Two different cells of unit R1 on port 1234 give 1-4&1-4; a 5G row of
\* another element on port 12 gives 1-2.
C16_Witness ==
    /\ ret.op = "_process_ru_with_mapping"
    /\ Len(Rows4G) = 2 /\ Rows4G[1] # Rows4G[2]
    /\ PairOf(Rows4G[1]) = PairOf(Rows4G[2])
    /\ Len(Rows5G) = 1 /\ PairOf(Rows5G[1]) = << <<"NE2">>, <<"R1">> >>
    /\ RuCell(RuStart, "RxChannelNo") = <<"1-4", "&", "1-4">>
    /\ RuCell(RuStart, "TxChannelNo") = <<"1-4", "&", "1-4">>
    /\ RuCell(RuStart + 1, "RxChannelNo") = <<"1-2">>

-----------------------------------------------------------------------------
(* The 4G cell routine: the inputs.                                        *)

\* wb = load_workbook(template) followed by self._process_cell4g_sheet(wb).
ProcessCell4gSheet(book) ==
    /\ input_data # EmptyDict
    /\ config # Null
    /\ \E done \in { _process_cell4g_sheet(book, config, mappings, input_data) } :
           /\ wb' = done.book
           /\ ret' = [op |-> "_process_cell4g_sheet", exc |-> done.exc, book |-> book]
    /\ UNCHANGED <<config, input_data, template_path, mappings, engine, progress, output_folder, gui>>

\* What a dlChannelBandwidth cell may hold: a number, nothing, or a text
\* that is no number.
Bandwidths == { num(n) : n \in 0..MaxNumber } \cup { NaN, Malformed }

Radio4G_CellColumns ==
    { <<"NE_Name">>, <<"CellType">>, <<"dlChannelBandwidth">>, <<"arfcndl">>,
      <<"Relation 5G">> }

\* Radio 4G with an FDD cell related to the 5G cell N1 and a TDD cell
\* without relation.
Radio4G_Cells(bw_fdd, bw_tdd) ==
    [ columns |-> Radio4G_CellColumns,
      rows |-> << [c \in Radio4G_CellColumns |->
                      CASE c = <<"NE_Name">> -> <<"NE1">>
                        [] c = <<"CellType">> -> <<"F", "D", "D">>
                        [] c = <<"dlChannelBandwidth">> -> bw_fdd
                        [] c = <<"arfcndl">> -> <<"17">>
                        [] OTHER -> <<"N1">>],
                  [c \in Radio4G_CellColumns |->
                      CASE c = <<"NE_Name">> -> <<"NE1">>
                        [] c = <<"CellType">> -> <<"T", "D", "D">>
                        [] c = <<"dlChannelBandwidth">> -> bw_tdd
                        [] c = <<"arfcndl">> -> <<"17">>
                        [] OTHER -> NaN] >> ]

\* The Mapping sheet: fixed values for the cell4g columns pb (also in the
\* config), sceneCfg (nowhere else), paForDTCH and nRearfcn (calculated).
Mapping_Cell4g ==
    [ columns |-> MappingColumns,
      rows |-> << MappingRow(version, <<"cell4g">>, <<"pb">>, NaN, NaN, <<"1">>, NaN),
                  MappingRow(version, <<"cell4g">>, <<"sceneCfg">>, NaN, NaN, <<"m">>, NaN),
                  MappingRow(version, <<"cell4g">>, <<"paForDTCH">>, NaN, NaN, <<"8">>, NaN),
                  MappingRow(version, <<"cell4g">>, <<"nRearfcn">>, NaN, NaN, <<"8">>, NaN) >> ]

Cell4gDatasets ==
    { (<<"Mapping">> :> mapping)
      @@ (<<"Radio 4G">> :> Radio4G_Cells(bw_fdd, bw_tdd))
      @@ (<<"Radio 5G">> :> Radio5G_Run(Radio5G_Columns, <<"2">>)) :
      mapping \in { Mapping_Cell4g, Mapping_Ru },
      bw_fdd \in Bandwidths,
      bw_tdd \in { <<"3">>, <<"12">>, NaN } }

\* A bandwidth table whose codes differ from the fallback's.
BandwidthTable ==
    Dict((<<"20.0">> :> Num(7)) @@ (<<"12.0">> :> Num(1)) @@ (<<"4.0">> :> Num(4)))

\* config.json: with the bandwidth table or without it; fixed values for
\* cell4g, four of them for calculated columns.
Cell4gConfig(tables) ==
    Dict(<<"SPU">> :> Dict(version :> Dict(
            tables
         @@ (<<"bandIndicator_mapping">> :> Dict(<<"17">> :> Str(<<"3">>)))
         @@ (<<"cell4g_fixed_values">> :>
                 Dict(   (<<"pb">> :> Num(0)) @@ (<<"refPlmn">> :> Str(<<"c">>))
                      @@ (<<"paForDTCH">> :> Num(9)) @@ (<<"bandIndicator">> :> Str(<<"9">>))
                      @@ (<<"nRearfcn">> :> Str(<<"9">>)) @@ (<<"earfcn">> :> Str(<<"9">>)))))))

Cell4gConfigs ==
    { Cell4gConfig(<<"bandwidth_mapping">> :> BandwidthTable),
      Cell4gConfig(<<"bandwidth_mapping">> :> EmptyNode),
      SctpConfig }

\* A template whose cell4g sheet has ten headers in row 2.
Cell4gBook ==
    <<"cell4g">> :> headers(<< <<"meId">>, <<"bandWidthDl">>, <<"bandWidth">>,
                               <<"sampleRateCfg">>, <<"paForDTCH">>, <<"bandIndicator">>,
                               <<"nRearfcn">>, <<"earfcn">>, <<"pb">>, <<"sceneCfg">> >>)

Cell4gNext ==
    \/ FirstLoad(Cell4gDatasets, Cell4gConfigs)
    \/ ProcessCell4gSheet(Cell4gBook)

SpecCell4g == Constructed /\ [][Cell4gNext]_vars

-----------------------------------------------------------------------------
(* Claims about the 4G cell routine.                                       *)

Cell4gSheet == wb[<<"cell4g">>]
Cell4gCols == _get_template_columns(Cell4gBook[<<"cell4g">>])
Cell4gStart == _find_data_start_row(Cell4gBook[<<"cell4g">>])
Cell4gCell(r, name) == cell(Cell4gSheet, r, Cell4gCols[<<name>>])

\* The channel bandwidth of the i-th 4G cell as a number: 0 for a cell
\* that is empty or holds no number.
ChannelBandwidth(i) ==
    LET value == Rows4G[i][<<"dlChannelBandwidth">>]
    IN  IF \E n \in 0..MaxNumber : value = num(n)
        THEN CHOOSE n \in 0..MaxNumber : value = num(n)
        ELSE 0

\* The bandwidth table of the config, and whether it lists a bandwidth.
TableOfConfig == cfg_get(_get_spu_config(config), "bandwidth_mapping")
Listed(bw) == has_key(TableOfConfig, <<ToString(bw) \o ".0">>)

\* The tiered fallback.
Tier(bw) ==
    IF bw >= 20 THEN 5 ELSE IF bw >= 15 THEN 4 ELSE IF bw >= 10 THEN 3
    ELSE IF bw >= 5 THEN 2 ELSE IF bw >= 3 THEN 1 ELSE 0

\* The code of a bandwidth: the table's entry if the table lists it, else
\* the fallback.
ExpectedCode(bw) ==
    IF Listed(bw) THEN TableOfConfig.items[<<ToString(bw) \o ".0">>].val ELSE Tier(bw)

\* C17: the bandwidth code written for a 4G cell (bandWidthDl for FDD,
\* bandWidth for TDD) is the bandwidth table's entry if the table lists the
\* channel bandwidth, otherwise the tiered fallback >=20 -> 5, >=15 -> 4,
\* >=10 -> 3, >=5 -> 2, >=3 -> 1, else 0; without a table entry 20, 15, 10,
\* 5, 3, 0 give 5, 4, 3, 2, 1, 0 and every value from 10 to 14 gives 3;
\* sampleRateCfg is 2 exactly when the downlink code is at least 4.
C17_BandwidthCode ==
    ret.op = "_process_cell4g_sheet" =>
        /\ ret.exc = "none"
        /\ \A i \in DOMAIN Rows4G :
               LET r == Cell4gStart + i - 1
                   bw == ChannelBandwidth(i)
                   column == IF Rows4G[i][<<"CellType">>] = <<"F", "D", "D">>
                             THEN "bandWidthDl" ELSE "bandWidth"
               IN  /\ Cell4gCell(r, column) = num(ExpectedCode(bw))
                   /\ (~Listed(bw) /\ bw \in {20, 15, 10, 5, 3, 0}) =>
                          Cell4gCell(r, column) = num(CASE bw = 20 -> 5 [] bw = 15 -> 4
                                                        [] bw = 10 -> 3 [] bw = 5 -> 2
                                                        [] bw = 3 -> 1 [] OTHER -> 0)
                   /\ (~Listed(bw) /\ bw \in 10..14) => Cell4gCell(r, column) = num(3)
                   /\ Cell4gCell(r, "sampleRateCfg") =
                          num(IF ExpectedCode(bw) >= 4 THEN 2 ELSE 0)
                   /\ Cell4gCell(r, "sampleRateCfg") = num(2)
                          <=> \E n \in 4..MaxNumber : Cell4gCell(r, column) = num(n)

\* The table gives 20 MHz the code 7 and the FDD cell gets it, with sample
\* rate 2; the TDD cell of 12 MHz gets the table's 1 and sample rate 0.
C17_Witness ==
    /\ ret.op = "_process_cell4g_sheet"
    /\ Listed(20) /\ Listed(12)
    /\ Rows4G[1][<<"dlChannelBandwidth">>] = <<"20">>
    /\ Rows4G[2][<<"dlChannelBandwidth">>] = <<"12">>
    /\ Cell4gCell(Cell4gStart, "bandWidthDl") = num(7)
    /\ Cell4gCell(Cell4gStart, "sampleRateCfg") = num(2)
    /\ Cell4gCell(Cell4gStart + 1, "bandWidth") = num(1)
    /\ Cell4gCell(Cell4gStart + 1, "sampleRateCfg") = num(0)

\* The fixed value the Mapping sheet gives a cell4g column, None if none.
SheetFixed(column) ==
    LET rules == SelectSeq(get(mappings, <<"cell4g">>, <<>>),
                           LAMBDA rule : rule.column = <<column>> /\ rule.fixed_value # None)
    IN  IF rules = <<>> THEN None ELSE rules[Len(rules)].fixed_value

\* The fixed value the config file gives a cell4g column, None if none.
ConfigFixed(column) ==
    LET fixed == cfg_get(_get_spu_config(config), "cell4g_fixed_values")
    IN  IF has_key(fixed, <<column>>) THEN py_str(fixed.items[<<column>>]) ELSE None

\* The fixed value of a column: the Mapping sheet's before the config's.
FixedOf(column) ==
    IF SheetFixed(column) # None THEN SheetFixed(column) ELSE ConfigFixed(column)

-----------------------------------------------------------------------------
(* A run from the loaded files to the saved workbook: one element with     *)
(* one 4G cell.                                                            *)

Radio4G_ScenarioColumns ==
    { <<"NE_Name">>, <<"CellName">>, <<"CellType">>, <<"arfcndl">>,
      <<"dlChannelBandwidth">>, <<"MIMO">> }

\* Radio 4G with the one cell of element NE1.
Radio4G_Scenario(cell_type, arfcndl, bw, mimo) ==
    [ columns |-> Radio4G_ScenarioColumns,
      rows |-> << [c \in Radio4G_ScenarioColumns |->
                      CASE c = <<"NE_Name">> -> <<"NE1">>
                        [] c = <<"CellName">> -> <<"c1">>
                        [] c = <<"CellType">> -> cell_type
                        [] c = <<"arfcndl">> -> arfcndl
                        [] c = <<"dlChannelBandwidth">> -> bw
                        [] OTHER -> mimo] >> ]

ScenarioDatasets ==
    { (<<"Mapping">> :> Mapping_Run)
      @@ (<<"IP">> :> [columns |-> IpSheetColumns,
                       rows |-> << IpSheetRow(1, [LTE_IP |-> <<"10.0.0.4">>, NR_IP |-> NaN,
                                                  OAM_vlan |-> <<"100">>, NR_vlan |-> NaN]) >>])
      @@ (<<"Radio 4G">> :> Radio4G_Scenario(cell_type, arfcndl, bw, mimo)) :
      cell_type \in { <<"F", "D", "D">>, <<"T", "D", "D">> },
      arfcndl \in { <<"1700">>, NaN },
      bw \in { <<"20">>, <<"10">> },
      mimo \in { <<"2", "T", "2", "R">>, <<"4", "T", "4", "R">>, NaN } }

\* config.json with the arfcn -> band table and the bandwidth table.
ScenarioConfig ==
    Dict(<<"SPU">> :> Dict(version :> Dict(
            (<<"bandIndicator_mapping">> :> Dict(<<"1700">> :> Str(<<"3">>)))
         @@ (<<"bandwidth_mapping">> :> Dict(<<"20.0">> :> Num(5))))))

ScenarioConfigs == { ScenarioConfig, SctpConfig }

\* A template with the sheets cell4g and Ip.
ScenarioBook ==
       (<<"cell4g">> :> headers(<< <<"meId">>, <<"userLabel">>, <<"bandWidthDl">>,
                                   <<"bandWidth">>, <<"cellRSPortNum">>, <<"paForDTCH">>,
                                   <<"bandIndicator">> >>))
    @@ IpBook

ScenarioFiles == TemplateName :> ScenarioBook

SetScenarioTemplate == set_template(TemplateName, ScenarioFiles) /\ UNCHANGED gui

ProcessScenario ==
    /\ UNCHANGED gui
    /\ \E progress_callback \in BOOLEAN, now \in Clock,
       file \in IF config \in {Null, EmptyNode} THEN ScenarioConfigs ELSE {config} :
        process(progress_callback, file, now, ScenarioFiles)

ScenarioNext ==
    \/ FirstLoad(ScenarioDatasets, ScenarioConfigs)
    \/ SetScenarioTemplate
    \/ ProcessScenario

SpecScenario == Constructed /\ [][ScenarioNext]_vars

\* The cell of the saved workbook's cell4g sheet in output row i.
ScenarioCell(i, name) ==
    LET cols == _get_template_columns(ScenarioBook[<<"cell4g">>])
    IN  cell(Saved[<<"cell4g">>], _find_data_start_row(ScenarioBook[<<"cell4g">>]) + i - 1,
             cols[<<name>>])

\* The dataset of the scenario: an FDD cell with arfcndl 1700, 20 MHz and
\* MIMO 2T2R, and config tables that list both.
TheScenario ==
    /\ Len(Rows4G) = 1
    /\ Rows4G[1][<<"CellType">>] = <<"F", "D", "D">>
    /\ Rows4G[1][<<"arfcndl">>] = <<"1700">>
    /\ Rows4G[1][<<"dlChannelBandwidth">>] = <<"20">>
    /\ Rows4G[1][<<"MIMO">>] = <<"2", "T", "2", "R">>
    /\ has_key(cfg_get(_get_spu_config(config), "bandIndicator_mapping"), <<"1700">>)
    /\ has_key(cfg_get(_get_spu_config(config), "bandwidth_mapping"), <<"20.0">>)

\* C18: end to end, one element with one 4G FDD cell (arfcndl 1700,
\* dlChannelBandwidth 20, MIMO 2T2R) and matching config tables give a saved
\* workbook with exactly one cell4g row, with bandWidthDl 5, cellRSPortNum 1,
\* paForDTCH 4 and the band the config gives for "1700" as bandIndicator.
C18_EndToEnd ==
    (ret.op = "process" /\ input_data # EmptyDict /\ template_path # <<>> /\ TheScenario) =>
        /\ ret.exc = "none"
        /\ Len(ret.output_files) = 1
        /\ ScenarioCell(1, "meId") = <<"NE1">>
        /\ ScenarioCell(1, "bandWidthDl") = num(5)
        /\ ScenarioCell(1, "cellRSPortNum") = num(1)
        /\ ScenarioCell(1, "paForDTCH") = num(4)
        /\ ScenarioCell(1, "bandIndicator") =
               cfg_get(_get_spu_config(config), "bandIndicator_mapping").items[<<"1700">>].val
        /\ \A name \in { "meId", "userLabel", "bandWidthDl", "bandWidth", "cellRSPortNum",
                         "paForDTCH", "bandIndicator" } : ScenarioCell(2, name) = None

\* The scenario has run and its workbook is saved under the name of the
\* template, the element and the time.
C18_Witness ==
    /\ ret.op = "process" /\ ret.exc = "none" /\ TheScenario
    /\ ret.output_files = << <<"SPU", "_", "NE1", "_", "20240101_0900", ".xlsx">> >>
    /\ ScenarioCell(1, "bandIndicator") = <<"3">>
    /\ ScenarioCell(1, "bandWidthDl") = num(5)
    /\ ScenarioCell(1, "bandWidth") = None

-----------------------------------------------------------------------------
(* The 5G cell routine: the inputs.                                        *)

\* wb = load_workbook(template) followed by self._process_cell5g_sheet(wb).
ProcessCell5gSheet(book) ==
    /\ input_data # EmptyDict
    /\ \E done \in { _process_cell5g_sheet(book, mappings, input_data) } :
           /\ wb' = done
           /\ ret' = [op |-> "_process_cell5g_sheet", exc |-> "none", book |-> book]
    /\ UNCHANGED <<config, input_data, template_path, mappings, engine, progress, output_folder, gui>>

\* What a configuredMaxTxPower cell may hold: a number of watts, written
\* as an integer or with ".0", a negative number, nothing, or a text that
\* is no number.
Powers ==
    { num(n) : n \in 0..MaxNumber } \cup { <<"1.0">>, <<"-1">>, <<"-3">>, NaN, Malformed }

Radio5G_CellColumns == { <<"NE_Name">>, <<"nRCell">>, <<"rruPort">>, <<"configuredMaxTxPower">> }

\* Radio 5G with one cell of the given power on the given ports.
Radio5G_Cell(columns, rru_port, power) ==
    [ columns |-> columns,
      rows |-> << [c \in columns |->
                      CASE c = <<"NE_Name">> -> <<"NE1">>
                        [] c = <<"nRCell">> -> <<"N1">>
                        [] c = <<"rruPort">> -> rru_port
                        [] OTHER -> power] >> ]

\* Mapping rules that give cell5g two fixed values, one of them for a
\* column the routine computes.
Mapping_Cell5g ==
    [ columns |-> MappingColumns,
      rows |-> << MappingRow(version, <<"cell5g">>, <<"configuredMaxTxPower">>, NaN, NaN,
                             <<"9">>, NaN),
                  MappingRow(version, <<"cell5g">>, <<"qcellSwitch">>, NaN, NaN,
                             <<"0">>, NaN) >> ]

Cell5gDatasets ==
    { (<<"Mapping">> :> mapping) @@ (<<"Radio 5G">> :> Radio5G_Cell(columns, rru_port, power)) :
      mapping \in { Mapping_Cell5g, Mapping_Run },
      columns \in { Radio5G_CellColumns, Radio5G_CellColumns \ { <<"configuredMaxTxPower">> } },
      rru_port \in { <<"1-32">>, <<"1-4">> },
      power \in Powers }

\* A template whose cell5g sheet has five headers in row 2.
Cell5gBook ==
    <<"cell5g">> :> headers(<< <<"meId">>, <<"configuredMaxTxPower">>, <<"powerPerRERef">>,
                               <<"dlAntNum">>, <<"qcellSwitch">> >>)

Cell5gNext ==
    \/ FirstLoad(Cell5gDatasets, {EmptyNode})
    \/ ProcessCell5gSheet(Cell5gBook)

SpecCell5g == Constructed /\ [][Cell5gNext]_vars

-----------------------------------------------------------------------------
(* The 5G cell routine: the transmit power.                                *)

Cell5gSheet == wb[<<"cell5g">>]

\* The cell of the first cell5g row under a header.
Cell5gCell(name) ==
    cell(Cell5gSheet, _find_data_start_row(Cell5gBook[<<"cell5g">>]),
         _get_template_columns(Cell5gBook[<<"cell5g">>])[<<name>>])

\* The power of the one Radio 5G row; NaN where the sheet has no such column.
PowerCell == get(sheet_of(input_data, "Radio 5G").rows[1], <<"configuredMaxTxPower">>, NaN)

\* The watts of a power cell that holds a positive number, 0 otherwise.
Watts(power) ==
    IF \E n \in 1..MaxNumber : power \in { num(n), <<ToString(n) \o ".0">> }
    THEN CHOOSE n \in 1..MaxNumber : power \in { num(n), <<ToString(n) \o ".0">> }
    ELSE 0

\* 10 * (10 * log10(p) + 30) to the nearest integer, for p = 1, 2, 3, ...
NearestTenthsOfDbm ==
    << 300, 330, 348, 360, 370, 378, 385, 390, 395, 400,
       404, 408, 411, 415, 418, 420, 423, 426, 428, 430,
       432, 434, 436, 438, 440, 441, 443, 445, 446, 448 >>

\* C20: the configuredMaxTxPower written for a 5G row is
\* 10 * (10 * log10(watts) + 30) rounded to the nearest integer when the
\* power is above zero (300 for 1.0 W), and 0 when the power is 0,
\* negative or absent.
C20_TxPowerRounded ==
    (ret.op = "_process_cell5g_sheet" /\ PowerCell # Malformed) =>
        Cell5gCell("configuredMaxTxPower") =
            num(IF Watts(PowerCell) > 0 THEN NearestTenthsOfDbm[Watts(PowerCell)] ELSE 0)

-----------------------------------------------------------------------------
(* One processor, several loads and runs: the inputs.                      *)

\* processor.set_input_data(data) at any time, as the front-ends call it
\* for every file the user loads.
SetInputData(datasets, files) ==
    /\ \E data \in datasets, file \in files : set_input_data(data, file)
    /\ UNCHANGED gui

\* The Mapping sheet a loaded file may have: rules, other rules, a sheet
\* without rows, or no Mapping sheet at all.
ReloadMappings ==
    { <<"Mapping">> :> Mapping_Run,
      <<"Mapping">> :> Mapping_Cell4g,
      <<"Mapping">> :> [columns |-> MappingColumns, rows |-> <<>>],
      EmptyDict }

ReloadDatasets ==
    { mapping
      @@ (<<"IP">> :> [columns |-> IpSheetColumns,
                       rows |-> << IpSheetRow(1, [LTE_IP |-> <<"10.0.0.4">>, NR_IP |-> NaN,
                                                  OAM_vlan |-> <<"100">>, NR_vlan |-> NaN]) >>])
      @@ (<<"Radio 4G">> :> Radio4G_Scenario(<<"F", "D", "D">>, <<"1700">>, bw,
                                             <<"2", "T", "2", "R">>)) :
      mapping \in ReloadMappings, bw \in { <<"20">>, <<"10">> } }

ReloadFiles == TemplateName :> Cell4gBook

SetReloadTemplate == set_template(TemplateName, ReloadFiles) /\ UNCHANGED gui

ProcessReload ==
    /\ UNCHANGED gui
    /\ \E progress_callback \in BOOLEAN, now \in Clock :
        process(progress_callback, IF config \in {Null, EmptyNode} THEN ScenarioConfig ELSE config,
                now, ReloadFiles)

ReloadNext ==
    \/ SetInputData(ReloadDatasets, {ScenarioConfig})
    \/ SetReloadTemplate
    \/ ProcessReload

SpecReload == Constructed /\ [][ReloadNext]_vars

\* The rules of the Mapping sheet of the loaded dataset: none when the
\* dataset has no Mapping sheet or an empty one.
RulesOfLoaded ==
    IF <<"Mapping">> \in DOMAIN input_data /\ ~empty(sheet_of(input_data, "Mapping"))
    THEN SPUProcessor_parse_mappings(sheet_of(input_data, "Mapping")).mappings
    ELSE EmptyDict

\* C21: after any sequence of set_input_data calls the rules a run uses
\* are those of the Mapping sheet of the dataset loaded last, none when
\* that dataset has no Mapping sheet or an empty one; the workbook a run
\* saves is the one these rules give.
C21_RulesFollowInput ==
    /\ input_data # EmptyDict => mappings = RulesOfLoaded
    /\ (ret.op = "process" /\ ret.exc = "none") =>
           Saved = _process_group(Cell4gBook, config, RulesOfLoaded, input_data).book

-----------------------------------------------------------------------------
(* Runs that are repeated: the inputs.                                     *)

\* Two datasets that differ in their element, their cells and their rules;
\* the element names the dataset.
RerunDatasets ==
    { (<<"Mapping">> :> Mapping_Cell4g)
      @@ (<<"IP">> :> [columns |-> IpSheetColumns,
                       rows |-> << IpSheetRow(1, [LTE_IP |-> <<"10.0.0.4">>, NR_IP |-> NaN,
                                                  OAM_vlan |-> <<"100">>, NR_vlan |-> NaN]) >>])
      @@ (<<"Radio 4G">> :> Radio4G_Cells(<<"20">>, <<"3">>)),
      (<<"Mapping">> :> Mapping_Run)
      @@ (<<"IP">> :> [columns |-> IpSheetColumns,
                       rows |-> << IpSheetRow(2, [LTE_IP |-> NaN, NR_IP |-> <<"10.0.0.5">>,
                                                  OAM_vlan |-> NaN, NR_vlan |-> NaN]) >>])
      @@ (<<"Radio 4G">> :> Radio4G_Scenario(<<"T", "D", "D">>, <<"1700">>, <<"10">>, NaN)) }

\* A template with the sheets cell4g and Ip.
RerunBook == Cell4gBook @@ IpBook

RerunFiles == TemplateName :> RerunBook

\* Two readings of the clock, a minute apart.
RerunClock == { <<"20240101_0900">>, <<"20240101_0901">> }

SetRerunTemplate == set_template(TemplateName, RerunFiles) /\ UNCHANGED gui

ProcessRerun ==
    /\ UNCHANGED gui
    /\ \E progress_callback \in BOOLEAN, now \in RerunClock :
        process(progress_callback, IF config \in {Null, EmptyNode} THEN ScenarioConfig ELSE config,
                now, RerunFiles)

RerunNext ==
    \/ SetInputData(RerunDatasets, {ScenarioConfig})
    \/ SetRerunTemplate
    \/ ProcessRerun

SpecRerun == Constructed /\ [][RerunNext]_vars

\* Two file names that differ at most in their timestamp, the token before
\* the extension.
SameButTimestamp(f, g) ==
    /\ Len(f) = Len(g)
    /\ \A i \in DOMAIN f : i # Len(f) - 1 => f[i] = g[i]

\* C22: runs of one processor with the same input, template and config
\* save workbooks with the same cell contents, their names differing in
\* the timestamp only: nothing a run in between has written is in them.
C22_RerunIdentical ==
    \A f \in DOMAIN output_folder, g \in DOMAIN output_folder :
        SameButTimestamp(f, g) => output_folder[f] = output_folder[g]

\* The first dataset was processed twice, a minute apart, with a run of the
\* second dataset saved as well; the last run rewrote the Ip sheet it had
\* cloned from the template.
C22_Witness ==
    /\ ret.op = "process" /\ ret.exc = "none"
    /\ DOMAIN output_folder =
           { <<"SPU", "_", "NE" \o n, "_", t, ".xlsx">> :
             n \in { "1", "2" }, t \in { "20240101_0900", "20240101_0901" } }
    /\ ret.output_files = << <<"SPU", "_", "NE1", "_", "20240101_0901", ".xlsx">> >>
    /\ Saved # output_folder[<<"SPU", "_", "NE2", "_", "20240101_0900", ".xlsx">>]
    /\ Saved # RerunBook

-----------------------------------------------------------------------------
(* The name of the output workbook: the inputs.                            *)

\* Element names, in ascending order.
ElementNames == << <<"NE1">>, <<"NE2">>, <<"NE3">> >>

NamedElements == { ElementNames[i] : i \in DOMAIN ElementNames } \cup { NaN }

\* An IP sheet whose rows bear the given names, in the given order.
IpSheetOf(columns, names) ==
    [ columns |-> columns,
      rows |-> [i \in DOMAIN names |->
                   [c \in columns |->
                       IF c = <<"NE_Name">> THEN names[i]
                       ELSE IpSheetRow(i, [LTE_IP |-> <<"10.0.0.4">>, NR_IP |-> NaN,
                                           OAM_vlan |-> NaN, NR_vlan |-> NaN])[c]]] ]

\* Datasets with an IP sheet of one to MaxRows rows in any order, with an
\* IP sheet that has no rows or no NE_Name column, and without IP sheet.
NamingDatasets ==
    { (<<"Mapping">> :> Mapping_Run) @@ (<<"IP">> :> IpSheetOf(IpSheetColumns, names)) :
      names \in SeqsUpTo(NamedElements, MaxRows) }
    \cup
    { (<<"Mapping">> :> Mapping_Run) @@ (<<"IP">> :> IpSheetOf(IpSheetColumns, <<>>)),
      (<<"Mapping">> :> Mapping_Run)
      @@ (<<"IP">> :> IpSheetOf(IpSheetColumns \ { <<"NE_Name">> }, << <<"NE1">> >>)),
      <<"Mapping">> :> Mapping_Run }

NamingFiles == TemplateName :> IpBook

SetNamingTemplate == set_template(TemplateName, NamingFiles) /\ UNCHANGED gui

ProcessNaming ==
    /\ UNCHANGED gui
    /\ \E progress_callback \in BOOLEAN, now \in RerunClock :
        process(progress_callback, IF config \in {Null, EmptyNode} THEN ScenarioConfig ELSE config,
                now, NamingFiles)

NamingNext ==
    \/ FirstLoad(NamingDatasets, {ScenarioConfig})
    \/ SetNamingTemplate
    \/ ProcessNaming

SpecNaming == Constructed /\ [][NamingNext]_vars

\* The element names of the loaded dataset, empty cells left out.
LoadedNames ==
    LET ip_df == sheet_of(input_data, "IP")
    IN  IF <<"NE_Name">> \in ip_df.columns
        THEN { ip_df.rows[i][<<"NE_Name">>] : i \in DOMAIN ip_df.rows } \ { NaN }
        ELSE {}

LoadedCount ==
    LET ip_df == sheet_of(input_data, "IP")
    IN  IF <<"NE_Name">> \in ip_df.columns
        THEN Cardinality({ i \in DOMAIN ip_df.rows : ip_df.rows[i][<<"NE_Name">>] # NaN })
        ELSE 0

Rank(name) == CHOOSE i \in DOMAIN ElementNames : ElementNames[i] = name
Lowest(names) == CHOOSE n \in names : \A o \in names : Rank(n) <= Rank(o)
Highest(names) == CHOOSE n \in names : \A o \in names : Rank(n) >= Rank(o)

\* The label of the group: from the sorted element names.
SortedLabel ==
    IF LoadedCount = 0 THEN <<"default">>
    ELSE IF LoadedCount = 1 THEN Lowest(LoadedNames)
    ELSE Lowest(LoadedNames) \o <<"-">> \o Highest(LoadedNames)

\* The label from the element names in the order of the IP rows.
RowOrderLabel == get_groups(input_data)[1]

\* C23: a run saves exactly one workbook, named
\* {TemplateBaseName}_{GroupLabel}_{YYYYMMDD}_{HHMM}.xlsx, whose label joins
\* the first and the last of the sorted element names of the dataset, is
\* the one name of a single element, and is "default" without elements.
C23_OutputName ==
    (ret.op = "process" /\ ret.exc = "none") =>
        /\ Len(ret.output_files) = 1
        /\ \E now \in RerunClock :
               ret.output_files[1] = <<"SPU", "_">> \o SortedLabel \o <<"_">> \o now \o <<".xlsx">>
        /\ ret.output_files[1] \in DOMAIN output_folder

-----------------------------------------------------------------------------
(* Progress notifications of a run.                                        *)

\* The notifications of a run that used a callback: a start at 0, one per
\* group below 100 and not decreasing, and a completion at 100 as the last
\* one if and only if the run returned, its workbook then being saved.
ProgressShape(calls, result, folder) ==
    /\ Len(calls) >= 2
    /\ calls[1] = notification(<<"Starting SPU processing...">>, 0)
    /\ calls[2].pct >= calls[1].pct /\ calls[2].pct < 100
    /\ IF result.exc = "none"
       THEN /\ Len(calls) = 3
            /\ calls[3] = notification(<<"Processing complete!">>, 100)
            /\ \A i \in DOMAIN result.output_files : result.output_files[i] \in DOMAIN folder
       ELSE /\ Len(calls) = 2
            /\ \A i \in DOMAIN calls : calls[i].pct # 100

\* C24: progress notifications are a side channel. A run with a callback
\* and a run without one, of the same processor state, write the same
\* cells and return the same list; the calls of a run are a start (0), one
\* call per group before the group is processed (below 100, not
\* decreasing), and one completion (100) after the workbooks are saved; a
\* run that raises reports no completion.
C24_ProgressSideChannel ==
    [][ ret'.op = "process" =>
            /\ progress' # <<>> => ProgressShape(progress', ret', output_folder')
            /\ (ret.op = "process" /\ config' = config) =>
                   /\ wb' = wb
                   /\ ret' = ret
                   /\ output_folder' = output_folder ]_vars

\* A run with a callback has saved its workbook and reported the start,
\* the group and the completion.
C24_Witness ==
    /\ ret.op = "process" /\ ret.exc = "none"
    /\ Len(progress) = 3
    /\ progress[2].message = <<"Processing group: ", "NE1">>
    /\ Saved = wb /\ wb # RunBook

-----------------------------------------------------------------------------
(* The site routine: the inputs.                                           *)

\* Element names, letter by letter: two with a prefix of three letters,
\* one shorter than a prefix, and an empty cell.
SiteNames ==
    { <<"H", "N", "I", "1">>, <<"H", "C", "M", "2">>, <<"A", "B">>, NaN }

\* An IP sheet whose rows bear the given names; the management address of
\* row i ends in i.
SiteIpSheet(names) ==
    [ columns |-> { <<"NE_Name">>, <<"OAM_IP">> },
      rows |-> [i \in DOMAIN names |->
                   (<<"NE_Name">> :> names[i])
                   @@ (<<"OAM_IP">> :> <<"10.0.0." \o ToString(i)>>)] ]

\* Fixed values for the site columns vendor, which the routine does not
\* compute, and meId, which it does.
Mapping_Site ==
    [ columns |-> MappingColumns,
      rows |-> << MappingRow(version, <<"site">>, <<"vendor">>, NaN, NaN, <<"Z">>, NaN),
                  MappingRow(version, <<"site">>, <<"meId">>, NaN, NaN, <<"X">>, NaN) >> ]

\* A fixed value for vendor only.
Mapping_SiteVendor ==
    [ columns |-> MappingColumns,
      rows |-> << MappingRow(version, <<"site">>, <<"vendor">>, NaN, NaN, <<"Z">>, NaN) >> ]

SiteDatasets ==
    { (<<"Mapping">> :> mapping) @@ (<<"IP">> :> SiteIpSheet(names)) :
      mapping \in { Mapping_Site, Mapping_SiteVendor, Mapping_Run },
      names \in SeqsUpTo(SiteNames, MaxRows) }

\* config.json with a province table, and one without.
SiteConfigs ==
    { Dict(<<"province">> :> Dict(<<"H", "N", "I">> :> Str(<<"HaNoi">>))), SctpConfig }

\* A template whose site sheet has five headers in row 2.
SiteBook ==
    <<"site">> :> headers(<< <<"subNetwork">>, <<"meId">>, <<"userLabel">>,
                             <<"ipAddress">>, <<"vendor">> >>)

SiteNext ==
    \/ FirstLoad(SiteDatasets, SiteConfigs)
    \/ ProcessSiteSheet(SiteBook)

SpecSite == Constructed /\ [][SiteNext]_vars

-----------------------------------------------------------------------------
(* The site routine: the rows.                                             *)

SiteCell(i, name) ==
    cell(wb[<<"site">>], _find_data_start_row(SiteBook[<<"site">>]) + i - 1,
         _get_template_columns(SiteBook[<<"site">>])[<<name>>])

\* The rows of the IP sheet that name an element, in input order.
ElementRows ==
    SelectSeq(sheet_of(input_data, "IP").rows, LAMBDA r : r[<<"NE_Name">>] # NaN)

\* The province of an element: the entry of its prefix, or the prefix.
ProvinceOf(ne_name) ==
    LET p == IF Len(ne_name) >= 3 THEN SubSeq(ne_name, 1, 3) ELSE ne_name
        table == cfg_get(config, "province")
    IN  IF has_key(table, p) THEN table.items[p].val ELSE p

\* The four computed columns of the site rows are as described.
SiteComputed ==
    \A i \in DOMAIN ElementRows :
        /\ SiteCell(i, "subNetwork") = ProvinceOf(ElementRows[i][<<"NE_Name">>])
        /\ SiteCell(i, "meId") = ElementRows[i][<<"NE_Name">>]
        /\ SiteCell(i, "userLabel") = ElementRows[i][<<"NE_Name">>]
        /\ SiteCell(i, "ipAddress") = ElementRows[i][<<"OAM_IP">>]

\* The fixed value of the rule for the vendor column, None without rule.
SiteVendor == get(fixed_values_of(EmptyNode, mappings, <<"site">>), <<"vendor">>, None)

\* C25: the site routine writes one row per element row of the IP sheet,
\* in input order, with subNetwork the province of the first three
\* characters of the name (the prefix itself when the table has no entry),
\* meId and userLabel the name, ipAddress the management address; the
\* fixed-value rules fill the other columns only.
C25_SiteRows ==
    ret.op = "_process_site_sheet" =>
        /\ SiteComputed
        /\ \A i \in DOMAIN ElementRows : SiteCell(i, "vendor") = SiteVendor
        /\ \A name \in { "subNetwork", "meId", "userLabel", "ipAddress", "vendor" } :
               SiteCell(Len(ElementRows) + 1, name) = None

-----------------------------------------------------------------------------
(* The cable routine: the inputs.                                          *)

CableColumns == { <<"NE_Name">>, <<"RRU">>, <<"RiPort Baseband">>, <<"RiPort RRU">> }

\* The unit and the baseband field a 4G row may have: an AAU and an RRU
\* with device and port, an AAU in small letters, a field without "&", one
\* with two "&", and rows without baseband field.
CableKinds4G ==
    { << <<"A", "A", "U", "1">>, <<"VBP_1_6", "&", "OF1">> >>,
      << <<"A", "A", "U", "1">>, NaN >>,
      << <<"R", "R", "U", "1">>, <<"VBP_1_3">> >>,
      << <<"R", "R", "U", "1">>, <<"V", "&", "O", "&", "X">> >>,
      << <<"R", "R", "U", "1">>, NaN >>,
      << <<"a", "a", "u", "2">>, <<"VBP_1_6", "&", " ", "OF2">> >> }

CableKinds5G ==
    { << <<"A", "A", "U", "1">>, <<"VBP_1_8", "&", "OF3">> >>,
      << <<"A", "A", "U", "3">>, <<"VBP_1_8", "&", "OF4">> >>,
      << <<"A", "A", "U", "3">>, NaN >> }

\* A radio sheet of element NE1 with the given rows; the unit's port names
\* the technology and the row.
CableSheet(tech, kinds) ==
    [ columns |-> CableColumns,
      rows |-> [i \in DOMAIN kinds |->
                   [c \in CableColumns |->
                       CASE c = <<"NE_Name">> -> <<"NE1">>
                         [] c = <<"RRU">> -> kinds[i][1]
                         [] c = <<"RiPort Baseband">> -> kinds[i][2]
                         [] OTHER -> <<tech \o "-" \o ToString(i)>>]] ]

CableDatasets ==
    { (<<"Radio 4G">> :> CableSheet("4G", kinds4g))
      @@ (<<"Radio 5G">> :> CableSheet("5G", kinds5g)) :
      kinds4g \in SeqsUpTo(CableKinds4G, MaxRows) \cup { <<>> },
      kinds5g \in SeqsUpTo(CableKinds5G, MaxRows) \cup { <<>> } }

\* A template whose cable sheet has nine headers in row 2.
CableBook ==
    <<"cable">> :> headers(<< <<"meId">>, <<"upRiDevice">>, <<"upRiPort">>,
                              <<"downRiDevice">>, <<"downRiPort">>,
                              <<"upBitRateOnIrLine">>, <<"downBitRateOnIrLine">>,
                              <<"upProtocolType">>, <<"downProtocolType">> >>)

CableNext ==
    \/ FirstLoad(CableDatasets, {EmptyNode})
    \/ ProcessCableSheet(CableBook)

SpecCable == Constructed /\ [][CableNext]_vars

-----------------------------------------------------------------------------
(* The cable routine: the rows.                                            *)

CableCell(i, name) ==
    cell(wb[<<"cable">>], _find_data_start_row(CableBook[<<"cable">>]) + i - 1,
         _get_template_columns(CableBook[<<"cable">>])[<<name>>])

\* The first row of a pair among the given rows.
FirstOf(rows, pair) == rows[CHOOSE i \in DOMAIN rows :
                               /\ PairOf(rows[i]) = pair
                               /\ \A j \in 1..(i - 1) : PairOf(rows[j]) # pair]

\* The text before the first "&" of a baseband field and the text after it.
BeforeAmpersand(field) ==
    IF \E k \in DOMAIN field : field[k] = "&"
    THEN strip(SubSeq(field, 1, (CHOOSE k \in DOMAIN field :
                                    field[k] = "&" /\ \A j \in 1..(k - 1) : field[j] # "&") - 1))
    ELSE field
AfterAmpersand(field) ==
    IF \E k \in DOMAIN field : field[k] = "&"
    THEN strip(SubSeq(field, (CHOOSE k \in DOMAIN field :
                                 field[k] = "&" /\ \A j \in 1..(k - 1) : field[j] # "&") + 1,
                      Len(field)))
    ELSE <<>>

\* The cable sheet has one row per pair of `rows`, in the order of the
\* first rows of the pairs and filled from them; `aau` tells the AAUs.
CableRowsFrom(rows, aau(_)) ==
    LET pairs == Distinct([i \in DOMAIN rows |-> PairOf(rows[i])])
    IN  /\ \A i \in DOMAIN pairs :
               LET first == FirstOf(rows, pairs[i])
                   field == safe_str(first[<<"RiPort Baseband">>])
               IN  /\ CableCell(i, "meId") = pairs[i][1]
                   /\ CableCell(i, "downRiDevice") = pairs[i][2]
                   /\ CableCell(i, "downRiPort") = first[<<"RiPort RRU">>]
                   /\ CableCell(i, "upRiDevice") = BeforeAmpersand(field)
                   /\ CableCell(i, "upRiPort") = AfterAmpersand(field)
                   /\ CableCell(i, "upBitRateOnIrLine") =
                          IF aau(pairs[i][2]) THEN <<"25#0">> ELSE <<"11#0">>
                   /\ CableCell(i, "downBitRateOnIrLine") =
                          IF aau(pairs[i][2]) THEN <<"25#0">> ELSE <<"255#0">>
                   /\ CableCell(i, "upProtocolType") = num(IF aau(pairs[i][2]) THEN 7 ELSE 0)
                   /\ CableCell(i, "downProtocolType") = num(IF aau(pairs[i][2]) THEN 7 ELSE 0)
        /\ CableCell(Len(pairs) + 1, "meId") = None
        /\ CableCell(Len(pairs) + 1, "downRiDevice") = None

StartsWithAAU(name) == Len(name) >= 3 /\ SubSeq(name, 1, 3) = <<"A", "A", "U">>
StartsWithAnyAAU(name) ==
    /\ Len(name) >= 3
    /\ name[1] \in {"A", "a"} /\ name[2] \in {"A", "a"} /\ name[3] \in {"U", "u"}

\* C26: the cable sheet has exactly one row per distinct (element, radio
\* unit) of the 4G and 5G rows, taken from the first row of the pair, the
\* 4G rows before the 5G rows; the baseband field is split at its first
\* "&" into device and port; bit rates and protocols are 25#0, 25#0, 7, 7
\* for a unit whose name starts with "AAU" and 11#0, 255#0, 0, 0 otherwise.
C26_CableRows ==
    ret.op = "_process_cable_sheet" => CableRowsFrom(RadioRows, StartsWithAAU)

\* The rows that have a baseband field.
WithBaseband == SelectSeq(RadioRows, LAMBDA r : r[<<"RiPort Baseband">>] # NaN)

\* C26, amended: the pairs are those of the rows that have a baseband
\* field, each taken from its first such row, and a unit is an AAU if its
\* name starts with "AAU" in capital or small letters.
C26_CableRowsWithBaseband ==
    ret.op = "_process_cable_sheet" => CableRowsFrom(WithBaseband, StartsWithAnyAAU)

\* A 4G row and a 5G row of the unit AAU1 gave one cable row, taken from
\* the 4G row, and the second 5G row gave the cable of AAU3.
C26_Witness ==
    /\ ret.op = "_process_cable_sheet"
    /\ Len(Rows4G) = 1 /\ Len(Rows5G) = 2
    /\ CableCell(1, "downRiDevice") = <<"A", "A", "U", "1">>
    /\ CableCell(1, "downRiPort") = <<"4G-1">>
    /\ CableCell(1, "upRiPort") = <<"OF1">>
    /\ CableCell(2, "downRiPort") = <<"5G-2">>
    /\ CableCell(2, "upProtocolType") = num(7)
    /\ CableCell(3, "meId") = None

-----------------------------------------------------------------------------
(* The antenna-to-port string.                                             *)

\* self._get_ant_to_port_map(rru_port, cell_type)
GetAntToPortMap(rru_ports, cell_types) ==
    /\ \E rru_port \in rru_ports, cell_type \in cell_types :
           ret' = [op |-> "_get_ant_to_port_map", exc |-> "none",
                   rru_port |-> rru_port, cell_type |-> cell_type,
                   val |-> _get_ant_to_port_map(rru_port, cell_type)]
    /\ UNCHANGED <<config, input_data, template_path, mappings, engine, wb, progress,
                   output_folder, gui>>

\* Port codes, character by character: the codes of two and four ports, of
\* one port, and texts that are no code.
AntPortCodes ==
    { <<"1", "2">>, <<"3", "4">>, <<"1", "2", "3", "4">>,
      <<"1">>, <<"2">>, <<"3">>, <<"4">>,
      <<" ", "1", "2">>, <<"1", "2", ".", "0">>, <<"2", "1">>, <<"5">>,
      <<"1", "2", "3">>, <<"1", "-", "2">>, <<>> }

\* Duplex modes: FDD and TDD in capital and small letters, and texts that
\* are neither.
DuplexModes ==
    { <<"F", "D", "D">>, <<"T", "D", "D">>, <<"f", "d", "d">>, <<"t", "d", "d">>,
      <<"T", "d", "d">>, <<"T", "D">>, <<>>, Malformed }

AntNext == GetAntToPortMap(AntPortCodes, DuplexModes)

SpecAnt == Constructed /\ [][AntNext]_vars

\* The string has 64 entries with a ";" between any two.
SixtyFour(text) ==
    /\ Len(text) = 127
    /\ \A k \in 1..63 : text[2 * k] = ";"
    /\ \A k \in 1..64 : text[2 * k - 1] # ";"

\* The k-th entry of the string.
Entry(text, k) == text[2 * k - 1]

IsTDD(mode) == mode \in { <<"T", "D", "D">>, <<"t", "d", "d">>, <<"T", "d", "d">> }
IsFDD(mode) == mode \in { <<"F", "D", "D">>, <<"f", "d", "d">> }

\* The TDD pattern: four blocks of 16 entries, pairs 0,2 in the first and
\* the third, pairs 1,3 in the second and the fourth.
TddEntry(k) ==
    CASE k \in (1..16) \cup (33..48) -> IF k % 2 = 1 THEN "0" ELSE "2"
      [] OTHER -> IF k % 2 = 1 THEN "1" ELSE "3"

\* The FDD entries of the codes 12, 34 and 1234.
FddEntry(code, k) ==
    CASE code = <<"1", "2">> /\ k \in 1..2 -> ToString(k - 1)
      [] code = <<"3", "4">> /\ k \in 3..4 -> ToString(k - 3)
      [] code = <<"1", "2", "3", "4">> /\ k \in 1..4 -> ToString(k - 1)
      [] OTHER -> "15"

\* The FDD entries with the codes of one port as well: 1 -> 0 at position
\* 1, 2 -> 1 at position 2, 3 -> 0 at position 3, 4 -> 1 at position 4.
FddEntryOnePort(code, k) ==
    CASE code = <<"1">> /\ k = 1 -> "0"
      [] code = <<"2">> /\ k = 2 -> "1"
      [] code = <<"3">> /\ k = 3 -> "0"
      [] code = <<"4">> /\ k = 4 -> "1"
      [] OTHER -> FddEntry(code, k)

\* C27: anttoPortMap is a string of exactly 64 entries joined by ";" for
\* every port code and duplex mode; for TDD the pattern of (0,2), (1,3),
\* (0,2), (1,3) pairs in four equal blocks; for FDD all 15 but the
\* positions of an exact match of the port code (12, 34, 1234), all 15
\* for any other code.
C27_AntToPortMap ==
    ret.op = "_get_ant_to_port_map" =>
        /\ SixtyFour(ret.val)
        /\ IsTDD(ret.cell_type) => \A k \in 1..64 : Entry(ret.val, k) = TddEntry(k)
        /\ IsFDD(ret.cell_type) =>
               \A k \in 1..64 : Entry(ret.val, k) = FddEntry(strip(ret.rru_port), k)

\* C27, amended: the codes 1, 2, 3 and 4 of one port select a position as
\* well, and every mode that is not TDD takes the FDD entries.
C27_AntToPortMapOnePort ==
    ret.op = "_get_ant_to_port_map" =>
        /\ SixtyFour(ret.val)
        /\ IsTDD(ret.cell_type) => \A k \in 1..64 : Entry(ret.val, k) = TddEntry(k)
        /\ ~IsTDD(ret.cell_type) =>
               \A k \in 1..64 : Entry(ret.val, k) = FddEntryOnePort(strip(ret.rru_port), k)

\* The string of an FDD cell on the ports 3 and 4.
C27_Witness ==
    /\ ret.op = "_get_ant_to_port_map"
    /\ ret.cell_type = <<"F", "D", "D">> /\ ret.rru_port = <<"3", "4">>
    /\ SubSeq(ret.val, 1, 9) = <<"15", ";", "15", ";", "0", ";", "1", ";", "15">>
    /\ Len(ret.val) = 127

-----------------------------------------------------------------------------
(* The duplex mode of a 4G cell: the inputs.                               *)

DuplexColumns ==
    { <<"NE_Name">>, <<"CellType">>, <<"rruPort">>, <<"arfcndl">>, <<"dlChannelBandwidth">> }

\* What the CellType cell of a 4G row may hold: FDD or TDD in capital or
\* small letters, nothing, or another text.
CellTypes ==
    { <<"F", "D", "D">>, <<"T", "D", "D">>, <<"f", "d", "d">>, <<"t", "d", "d">>,
      NaN, <<" ">>, Malformed }

\* Radio 4G with the given cells, on the ports 1 and 2 or on four ports.
DuplexSheet(cells) ==
    [ columns |-> DuplexColumns,
      rows |-> [i \in DOMAIN cells |->
                   [c \in DuplexColumns |->
                       CASE c = <<"NE_Name">> -> <<"NE1">>
                         [] c = <<"CellType">> -> cells[i][1]
                         [] c = <<"rruPort">> -> cells[i][2]
                         [] c = <<"arfcndl">> -> <<"17">>
                         [] OTHER -> <<"20">>]] ]

DuplexDatasets ==
    { (<<"Mapping">> :> Mapping_Run) @@ (<<"Radio 4G">> :> DuplexSheet(cells)) :
      cells \in SeqsUpTo(CellTypes \X { <<"1", "2">>, <<"1", "2", "3", "4">>, <<"5">> },
                         MaxRows) }

\* A template whose cell4g sheet has the columns that depend on the duplex
\* mode.
DuplexBook ==
    <<"cell4g">> :> headers(<< <<"meId">>, <<"earfcnDl">>, <<"earfcn">>, <<"bandWidthDl">>,
                               <<"bandWidth">>, <<"paForDTCH">>, <<"anttoPortMap">> >>)

DuplexNext ==
    \/ FirstLoad(DuplexDatasets, {ScenarioConfig})
    \/ ProcessCell4gSheet(DuplexBook)

SpecDuplex == Constructed /\ [][DuplexNext]_vars

DuplexCell(i, name) ==
    cell(wb[<<"cell4g">>], _find_data_start_row(DuplexBook[<<"cell4g">>]) + i - 1,
         _get_template_columns(DuplexBook[<<"cell4g">>])[<<name>>])

\* The row has the fields of a TDD cell: earfcn and bandWidth, no
\* earfcnDl and no bandWidthDl, and paForDTCH 2.
TddFields(i) ==
    /\ DuplexCell(i, "earfcn") # None /\ DuplexCell(i, "bandWidth") # None
    /\ DuplexCell(i, "earfcnDl") = None /\ DuplexCell(i, "bandWidthDl") = None
    /\ DuplexCell(i, "paForDTCH") = num(2)

\* The row has the fields of an FDD cell.
FddFields(i) ==
    /\ DuplexCell(i, "earfcn") = None /\ DuplexCell(i, "bandWidth") = None
    /\ DuplexCell(i, "earfcnDl") # None /\ DuplexCell(i, "bandWidthDl") # None
    /\ DuplexCell(i, "paForDTCH") = num(4)

\* The row has the antenna string of a TDD cell: the pattern that begins
\* 0;2 and has no 15; that of an FDD cell is 15 but for its first entries.
TddMap(i) ==
    LET text == DuplexCell(i, "anttoPortMap")
    IN  /\ SubSeq(text, 1, 3) = <<"0", ";", "2">>
        /\ \A k \in DOMAIN text : text[k] # "15"
FddMap(i) == DuplexCell(i, "anttoPortMap")[127] = "15"

\* C29: in every cell4g row the fields that depend on the duplex mode
\* come from one classification of the cell: the fields of a TDD cell go
\* with the antenna string of a TDD cell and those of an FDD cell with
\* that of an FDD cell, whatever the CellType cell holds.
C29_OneDuplexPerRow ==
    (ret.op = "_process_cell4g_sheet" /\ ret.exc = "none") =>
        \A i \in DOMAIN Rows4G :
            \/ TddFields(i) /\ TddMap(i)
            \/ FddFields(i) /\ FddMap(i)

-----------------------------------------------------------------------------
(* The frame of a template sheet: the inputs.                              *)

\* Rows of column 1 that may hold the "Primary Key" marker; 0 for a sheet
\* without marker.
MarkerRows == { 0, 1, 3, 5, 9 }

\* A sheet with the given headers in row 2, but for the third, which is
\* blank; a title in row 1, a cell under the blank header, and the marker.
FrameSheet(names, marker_row) ==
    LET named == headers(names)
        row2 == [rc \in DOMAIN named \ { <<2, 3>> } |-> named[rc]]
    IN  (IF marker_row = 0 THEN EmptyDict ELSE <<marker_row, 1>> :> primary_key)
        @@ (<<1, 2>> :> <<"title">>) @@ (<<6, 3>> :> <<"kept">>) @@ row2

FrameBook(marker_row) ==
       (<<"Ip">> :> FrameSheet(<< <<"meId">>, <<"moId">>, <<"ipAddress">>, <<"vid">>,
                                  <<"gatewayIp">> >>, marker_row))
    @@ (<<"site">> :> FrameSheet(<< <<"subNetwork">>, <<"meId">>, <<"userLabel">>,
                                    <<"ipAddress">>, <<"vendor">> >>, marker_row))
    @@ (<<"cable">> :> FrameSheet(<< <<"meId">>, <<"upRiDevice">>, <<"upRiPort">>,
                                     <<"downRiDevice">>, <<"downRiPort">> >>, marker_row))

FrameBooks == { FrameBook(marker_row) : marker_row \in MarkerRows }

FrameDatasets ==
    { (<<"Mapping">> :> Mapping_SiteVendor)
      @@ (<<"IP">> :> [columns |-> IpSheetColumns,
                       rows |-> [i \in DOMAIN els |-> IpSheetRow(i, els[i])]])
      @@ (<<"Radio 4G">> :> CableSheet("4G", << << <<"R", "R", "U", "1">>,
                                                   <<"VBP_1_3", "&", "OF1">> >> >>)) :
      els \in SeqsUpTo(IpElementCells, MaxRows) }

FrameNext ==
    \/ FirstLoad(FrameDatasets, {EmptyNode})
    \/ \E book \in FrameBooks : ProcessIpSheet(book)
    \/ \E book \in FrameBooks : ProcessSiteSheet(book)
    \/ \E book \in FrameBooks : ProcessCableSheet(book)

SpecFrame == Constructed /\ [][FrameNext]_vars

\* The first data row of a sheet: the row after the marker in column 1 of
\* the rows 1 to 9, row 6 without marker.
FirstDataRow(ws) ==
    IF \E r \in 1..9 : cell(ws, r, 1) = primary_key
    THEN (CHOOSE r \in 1..9 : cell(ws, r, 1) = primary_key
                              /\ \A q \in 1..(r - 1) : cell(ws, q, 1) # primary_key) + 1
    ELSE 6

\* The columns of a sheet that have a header text in row 2.
HeaderColumns(ws) == { c \in 1..MaxColumn : cell(ws, 2, c) \notin { None, <<>> } }

\* The cells of a sheet that a routine has written: those that differ from
\* the template.
Written(before, after) ==
    { rc \in DOMAIN after : rc \notin DOMAIN before \/ after[rc] # before[rc] }

\* C28: every routine preserves the structure of the template: each write
\* lands in a row from the first data row on (the row after the "Primary
\* Key" marker in column 1 of rows 1 to 9, else row 6) and in a column
\* with a header text in row 2; the header rows, row 2 among them, and the
\* columns with a blank header are as in the template.
C28_TemplatePreserved ==
    ret.op \in { "_process_ip_sheet", "_process_site_sheet", "_process_cable_sheet" } =>
        /\ DOMAIN wb = DOMAIN ret.book
        /\ \A sheet \in DOMAIN wb :
               LET before == ret.book[sheet]
                   written == Written(before, wb[sheet])
               IN  /\ DOMAIN before \subseteq DOMAIN wb[sheet]
                   /\ \A rc \in written :
                          /\ rc[1] >= FirstDataRow(before)
                          /\ rc[2] \in HeaderColumns(before)
                          /\ rc[1] > 2

-----------------------------------------------------------------------------
(* SPUToolGUI: the handlers of the three buttons and the threads they      *)
(* start.  A handler runs in the main thread; a thread step is one call of *)
(* the processor.                                                          *)

\* The input files the dialog can return, with the sheets
\* ExcelHandler.read_input_file gives for each.
GuiInputs ==
    (<<"Input", "/", "NE1", ".", "xlsx">> :>
        CHOOSE data \in RerunDatasets : data[<<"Mapping">>] = Mapping_Cell4g)
    @@ (<<"Input", "/", "NE2", ".", "xlsx">> :>
        CHOOSE data \in RerunDatasets : data[<<"Mapping">>] = Mapping_Run)

\* The template files the dialog can return.
GuiTemplates ==
    (TemplateName :> RerunBook)
    @@ (<<"Template", "/", "IP", ".", "xlsx">> :> IpBook)

\* Load threads alive at once.
MaxThreads == 2

processor == <<config, input_data, template_path, mappings, engine, wb, progress, output_folder>>

\* _select_input_file, the dialog having returned file_path: the path is
\* kept and a load thread started.
SelectInputFile ==
    /\ gui.loading + Len(gui.read) < MaxThreads
    /\ \E file_path \in DOMAIN GuiInputs :
           /\ gui' = [gui EXCEPT !.input_file_path = file_path, !.loading = @ + 1]
           /\ ret' = [op |-> "_select_input_file", exc |-> "none", file_path |-> file_path]
    /\ UNCHANGED processor

\* _load_input_file, first statement: the thread reads the file that
\* self.input_file_path names when the statement runs.
ReadInputFile ==
    /\ gui.loading > 0
    /\ gui' = [gui EXCEPT !.loading = @ - 1, !.read = Append(@, gui.input_file_path)]
    /\ ret' = [op |-> "read_input_file", exc |-> "none", file_path |-> gui.input_file_path]
    /\ UNCHANGED processor

\* _load_input_file, second statement, in any of the load threads that
\* have read their file: the processor is given the data.
LoadInputFile ==
    \E k \in DOMAIN gui.read :
        /\ set_input_data(GuiInputs[gui.read[k]], ScenarioConfig)
        /\ gui' = [gui EXCEPT !.read = SubSeq(@, 1, k - 1) \o SubSeq(@, k + 1, Len(@))]

\* _select_template_file, the dialog having returned file_path.
SelectTemplateFile ==
    \E file_path \in DOMAIN GuiTemplates :
        /\ set_template(file_path, GuiTemplates)
        /\ gui' = [gui EXCEPT !.template_file_path = file_path]

\* _process_spu_output: the press of the process button, which an enabled
\* button alone takes.  Without both paths the handler shows an error and
\* returns; with them it disables the button and starts the thread.
ProcessSpuOutput ==
    /\ gui.btn_process = "normal"
    /\ LET refused == gui.input_file_path = <<>> \/ gui.template_file_path = <<>>
       IN  /\ gui' = IF refused THEN gui
                     ELSE [gui EXCEPT !.btn_process = "disabled", !.processing = @ + 1]
           /\ ret' = [op |-> "_process_spu_output",
                      exc |-> IF refused THEN "_show_error" ELSE "none"]
    /\ UNCHANGED processor

\* _run_processing, in the processing thread: process(progress_callback),
\* and in the finally clause the reset is handed to the event loop, after
\* which the thread ends.
RunProcessing ==
    /\ gui.processing > 0
    /\ \E now \in Clock :
           process(TRUE, IF config \in {Null, EmptyNode} THEN ScenarioConfig ELSE config,
                   now, GuiTemplates)
    /\ gui' = [gui EXCEPT !.processing = @ - 1, !.resets = @ + 1]

\* _reset_processing_state, run by the event loop.
ResetProcessingState ==
    /\ gui.resets > 0
    /\ gui' = [gui EXCEPT !.btn_process = "normal", !.resets = @ - 1]
    /\ ret' = [op |-> "_reset_processing_state", exc |-> "none"]
    /\ UNCHANGED processor

GuiNext ==
    \/ SelectInputFile
    \/ ReadInputFile
    \/ LoadInputFile
    \/ SelectTemplateFile
    \/ ProcessSpuOutput
    \/ RunProcessing
    \/ ResetProcessingState

SpecGui == Constructed /\ [][GuiNext]_vars

\* A processing thread has been started and has not ended.
RunActive == gui.processing > 0

\* C30: from the start of the processing thread until its end no step
\* replaces the input data, the parsed rules or the template of the
\* processor, and at most one processing thread is alive at a time, the
\* button staying disabled until the reset callback has run.
C30_NoRaceWithInputs ==
    [][ /\ RunActive => UNCHANGED <<input_data, mappings, template_path>>
        /\ gui.processing <= 1
        /\ (gui.processing > 0 \/ gui.resets > 0) => gui.btn_process = "disabled" ]_vars

=============================================================================
